---------------------------- MODULE Spec2Model ----------------------------
(***************************************************************************)
(* Model of ifmap.py (IF Archive index builder): the Template engine       *)
(* (Template.__init__, Template.subst) and the archive-tree construction   *)
(* (parse_directory_tree, parse_master_index).                             *)
(*                                                                         *)
(* Text is modelled as a sequence of one-character strings, so that the    *)
(* tokenizer, the filters and the line patterns work on characters as the  *)
(* code does.  Names used as dictionary keys are joined into TLA+ strings. *)
(***************************************************************************)
EXTENDS Integers, Sequences, FiniteSets, TLC

VARIABLES
    pieces,     \* the template body, split in the segments it was built from
    tmap,       \* the binding map handed to Template.substitute
    cache,      \* Template.cache: compiled tag lists by body
    out,        \* what was written to outfl
    diag,       \* what was printed to stdout ('Problem: ...' lines)
    exc,        \* the exception that ended the call ("" when none)
    tpc,        \* "start", "compiled", "done" or "raised" ("idle": not used)
    treedir,    \* the --tree argument (<<>> when there is none)
    disk,       \* the directory entries under treedir
    index,      \* the Master-Index file that was read
    dirmap,     \* ArchiveTree.dirmap
    stderr,     \* what was written to sys.stderr
    hcache,     \* FileHasher.cache
    hfile,      \* the lines of the checksum cache file
    aexc,       \* the exception that ended construct_archtree ("" when none)
    apc,        \* "start", "scanned", "parsed", "built", "checked", then
                \* "catalogued" or "dated", "indexed"; or "raised" ("idle")
    noindex,    \* noindexlist.ls: the lines of the no-index-entry file
    xml,        \* the _dirs that generate_output_xml hands to its template
    nounbox,    \* nounboxlinklist.set: the lines of the no-unbox-link file
    datelist,   \* the _files of the five pages of generate_output_datelist
    pages,      \* the bindings of the index pages generate_output_indexes wrote
    hdisk,      \* the contents of the files handed to FileHasher, by filename
    hreads,     \* how many times calculate_hashes has read a file
    hlast,      \* the last get_hashes call: its arguments and what it returned
    hn,         \* how many get_hashes calls were made
    wfs,        \* the files of the destination directory, by path
    wjob,       \* the SafeWriter in use: its names, its stream, what was dumped
    wstate,     \* "idle", "open" or "dead" (the run was interrupted)
    wpre,       \* the files of the destination directory before the run
    wres,       \* by final path, the content of the writer that was resolved
    mfs,        \* the Index and Index-new files and the files of olddir
    mdirs,      \* IndexMod.dirs, in insertion order
    ment,       \* the entry the last getfile returned (the caller's ent)
    mret,       \* the last IndexMod call: its name, its outcome
    mhist,      \* the directories changed since they were loaded or rewritten
    mn          \* how many IndexMod calls were made

tvars == <<pieces, tmap, cache, out, diag, exc, tpc>>

avars ==
    <<treedir, disk, index, dirmap, stderr, hcache, hfile, aexc, apc, noindex, xml>>

gvars == <<nounbox, datelist, pages>>

hvars == <<hdisk, hreads, hlast, hn>>

wvars == <<wfs, wjob, wstate, wpre, wres>>

mvars == <<mfs, mdirs, ment, mret, mhist, mn>>

vars == <<tvars, avars, gvars, hvars, wvars, mvars>>

\* the variables the Template engine leaves alone
nontemplate == <<avars, gvars, hvars, wvars, mvars>>

\* the variables the construction and the checks of the tree leave alone
nontree == <<tvars, gvars, hvars, wvars, mvars>>

\* the variables the page generators leave alone, besides those of the tree
nonpages == <<tvars, hvars, wvars, mvars>>

\* the variables the calls on a FileHasher leave alone, besides the tree's
nonhasher == <<tvars, gvars, wvars, mvars>>

\* the variables a SafeWriter leaves alone
nonwriter == <<tvars, avars, gvars, hvars, mvars>>

\* the variables an IndexMod leaves alone
nonindexmod == <<tvars, avars, gvars, hvars, wvars>>

-----------------------------------------------------------------------------
(* Bounds of the model *)

\* longest template of the conditional family, in segments
MaxPieces == 6

\* most lines of a Master-Index file after its first
MaxLines == 4
\* longest template of the repetition family, in segments
MaxRepPieces == 4
\* longest list bound to a repetition name
MaxList == 2
\* longest filter pipeline of a variable tag
MaxFilters == 2

-----------------------------------------------------------------------------
(* Strings *)

RECURSIVE Join(_)
Join(s) == IF s = <<>> THEN "" ELSE Head(s) \o Join(Tail(s))

RECURSIVE Flatten(_)
Flatten(ss) == IF ss = <<>> THEN <<>> ELSE Head(ss) \o Flatten(Tail(ss))

Whitespace == {" ", "\t", "\n", "\r", "\f"}

RECURSIVE LStrip(_)
LStrip(s) == IF s # <<>> /\ Head(s) \in Whitespace THEN LStrip(Tail(s)) ELSE s

RECURSIVE RStrip(_)
RStrip(s) ==
    IF s # <<>> /\ s[Len(s)] \in Whitespace
    THEN RStrip(SubSeq(s, 1, Len(s) - 1)) ELSE s

\* str.strip()
Strip(s) == LStrip(RStrip(s))

\* least index i >= from with s[i] = ch, or 0
IndexFrom(s, ch, from) ==
    IF \E i \in from..Len(s) : s[i] = ch
    THEN CHOOSE i \in from..Len(s) :
            s[i] = ch /\ \A j \in from..(i - 1) : s[j] # ch
    ELSE 0

\* str.split(sep) for a one-character separator
RECURSIVE Split(_, _)
Split(s, sep) ==
    LET i == IndexFrom(s, sep, 1)
    IN  IF i = 0 THEN <<s>>
        ELSE <<SubSeq(s, 1, i - 1)>> \o Split(SubSeq(s, i + 1, Len(s)), sep)

\* s[lo-1 : hi] for 1 <= lo: the elements lo..hi that exist (a Python slice
\* does not fail when it reaches past the end)
PySlice(s, lo, hi) ==
    IF lo > Len(s) \/ hi < lo THEN <<>>
    ELSE SubSeq(s, lo, IF hi > Len(s) THEN Len(s) ELSE hi)

DigitChars == <<"0", "1", "2", "3", "4", "5", "6", "7", "8", "9">>

RECURSIVE NatToChars(_)
NatToChars(n) ==
    IF n < 10 THEN <<DigitChars[n + 1]>>
    ELSE NatToChars(n \div 10) \o <<DigitChars[(n % 10) + 1]>>

\* str(int)
IntToChars(n) == IF n < 0 THEN <<"-">> \o NatToChars(0 - n) ELSE NatToChars(n)

-----------------------------------------------------------------------------
(* Python values bound in a map: a tag t and a payload v *)

VNone == [t |-> "none", v |-> 0]
VBool(b) == [t |-> "bool", v |-> b]
VInt(n) == [t |-> "int", v |-> n]
VStr(s) == [t |-> "str", v |-> s]
\* a callable func(outfl); v is the text it writes
VFunc(s) == [t |-> "func", v |-> s]
VList(ls) == [t |-> "list", v |-> ls]
\* an (ordered) dict; v is the sequence of its <<key, value>> items
VDict(items) == [t |-> "dict", v |-> items]
\* a value of any other type (a set, bytes, an object)
VObject == [t |-> "object", v |-> 0]

\* a truth test in which only a missing value, None and False are false
PyBoolOnlyNoneAndFalse(val) ==
    CASE val.t = "none" -> FALSE
      [] val.t = "bool" -> val.v
      [] OTHER -> TRUE

\* bool(val)
PyBool(val) ==
    CASE val.t = "none" -> FALSE
      [] val.t = "bool" -> val.v
      [] val.t = "int" -> val.v # 0
      [] val.t = "str" -> val.v # <<>>
      [] val.t = "list" -> val.v # <<>>
      [] val.t = "dict" -> val.v # <<>>
      [] OTHER -> TRUE

\* str(val), for the types Template.subst prints
PyStr(val) ==
    CASE val.t = "str" -> val.v
      [] val.t = "int" -> IntToChars(val.v)
      [] val.t = "bool" -> IF val.v THEN <<"T", "r", "u", "e">>
                                    ELSE <<"F", "a", "l", "s", "e">>

-----------------------------------------------------------------------------
(* Binding maps.  A map is a chain of dicts (collections.ChainMap); a plain *)
(* dict is a chain of one.  Lookups search the chain in order, writes go to *)
(* the first dict.                                                          *)

EmptyDict == [k \in {} |-> VNone]

\* bool(map): a ChainMap is true when any of its dicts is non-empty
ChainBool(chain) == \E i \in 1..Len(chain) : DOMAIN chain[i] # {}

\* map.get(key)
ChainGet(chain, key) ==
    IF \E i \in 1..Len(chain) : key \in DOMAIN chain[i]
    THEN LET i == CHOOSE i \in 1..Len(chain) :
                    /\ key \in DOMAIN chain[i]
                    /\ \A j \in 1..(i - 1) : key \notin DOMAIN chain[j]
         IN  chain[i][key]
    ELSE VNone

\* map[key] = val
ChainSet(chain, key, val) ==
    [chain EXCEPT ![1] =
        [k \in (DOMAIN chain[1]) \cup {key} |->
            IF k = key THEN val ELSE chain[1][k]]]

\* map.update(first) in place of a ChainMap: the keys land in the caller's
\* first dict
ChainNewShared(first, chain) ==
    <<[k \in (DOMAIN chain[1]) \cup (DOMAIN first) |->
        IF k \in DOMAIN first THEN first[k] ELSE chain[1][k]]>> \o Tail(chain)

\* ChainMap(first, map)
ChainNew(first, chain) == <<first>> \o chain

\* the dicts of map as they are after the ChainMap built over them was
\* written to: the ChainMap holds the dicts of map themselves, not copies
ChainRest(chain, map) == SubSeq(chain, Len(chain) - Len(map) + 1, Len(chain))

\* val = None; if map: val = map.get(tag.value)
Lookup(chain, key) == IF ChainBool(chain) THEN ChainGet(chain, key) ELSE VNone

-----------------------------------------------------------------------------
(* Filters (Template.filters), registered by name *)

LowerChars == <<"a", "b", "c", "d", "e", "f", "g", "h", "i", "j", "k", "l", "m",
                "n", "o", "p", "q", "r", "s", "t", "u", "v", "w", "x", "y", "z">>
UpperChars == <<"A", "B", "C", "D", "E", "F", "G", "H", "I", "J", "K", "L", "M",
                "N", "O", "P", "Q", "R", "S", "T", "U", "V", "W", "X", "Y", "Z">>

UpperChar(c) ==
    IF \E i \in 1..Len(LowerChars) : LowerChars[i] = c
    THEN UpperChars[CHOOSE i \in 1..Len(LowerChars) : LowerChars[i] = c]
    ELSE c

\* lambda val: val.upper()
RECURSIVE upper(_)
upper(s) == IF s = <<>> THEN <<>> ELSE <<UpperChar(Head(s))>> \o upper(Tail(s))

\* htmlable_pattern: the ASCII characters from space to ~ except & < >
Htmlable(c) == c \notin {"&", "<", ">", "\t", "\n", "\r", "\f"}

\* html_entities.get(ch): <<>> when ch has no entry
html_entities(c) ==
    CASE c = "\n" -> <<"\n">>
      [] c = "\t" -> <<"\t">>
      [] c = "&" -> <<"&", "a", "m", "p", ";">>
      [] c = "<" -> <<"&", "l", "t", ";">>
      [] c = ">" -> <<"&", "g", "t", ";">>
      [] OTHER -> <<>>

\* ord(ch), for the characters of the model that reach it
Ord(c) == CASE c = "\f" -> 12 [] c = "\r" -> 13

HexChars == <<"0", "1", "2", "3", "4", "5", "6", "7",
              "8", "9", "A", "B", "C", "D", "E", "F">>

\* '%X' % n
RECURSIVE ToHex(_)
ToHex(n) ==
    IF n < 16 THEN <<HexChars[n + 1]>>
    ELSE ToHex(n \div 16) \o <<HexChars[(n % 16) + 1]>>

RECURSIVE escape_html_string(_)
escape_html_string(s) ==
    IF s = <<>> THEN <<>>
    ELSE LET ch == Head(s)
             one == IF Htmlable(ch) THEN <<ch>>
                    ELSE IF html_entities(ch) # <<>> THEN html_entities(ch)
                    ELSE <<"&", "#", "x">> \o ToHex(Ord(ch)) \o <<";">>
         IN  one \o escape_html_string(Tail(s))

\* val.replace('/', '/<wbr>')
RECURSIVE slash_add_wbr(_)
slash_add_wbr(s) ==
    IF s = <<>> THEN <<>>
    ELSE (IF Head(s) = "/" THEN <<"/", "<", "w", "b", "r", ">">> ELSE <<Head(s)>>)
         \o slash_add_wbr(Tail(s))

\* val.replace(' ', '_')
RECURSIVE escape_wikipage(_)
escape_wikipage(s) ==
    IF s = <<>> THEN <<>>
    ELSE <<(IF Head(s) = " " THEN "_" ELSE Head(s))>> \o escape_wikipage(Tail(s))

\* the names Template.addfilter has registered
FilterNames == {"html", "slashwbr", "wikipage", "upper"}

\* Template.filters[filter](res)
ApplyFilter(name, res) ==
    CASE name = "html" -> escape_html_string(res)
      [] name = "slashwbr" -> slash_add_wbr(res)
      [] name = "wikipage" -> escape_wikipage(res)
      [] name = "upper" -> upper(res)

\* the filters applied last to first
RECURSIVE RunFiltersReversed(_, _, _)
RunFiltersReversed(args, res, dg) ==
    IF args = <<>> THEN [res |-> res, diag |-> dg]
    ELSE LET last == args[Len(args)]
             rest == SubSeq(args, 1, Len(args) - 1)
         IN  IF last \in FilterNames
             THEN RunFiltersReversed(rest, ApplyFilter(last, res), dg)
             ELSE RunFiltersReversed(rest, res,
                                     Append(dg, "Problem: undefined filter: " \o last))

\* for filter in tag.args: ... (the loop of Template.subst over a var tag's filters)
RECURSIVE RunFilters(_, _, _)
RunFilters(args, res, dg) ==
    IF args = <<>> THEN [res |-> res, diag |-> dg]
    ELSE IF Head(args) \in FilterNames
         THEN RunFilters(Tail(args), ApplyFilter(Head(args), res), dg)
         ELSE RunFilters(Tail(args), res,
                         Append(dg, "Problem: undefined filter: " \o Head(args)))

-----------------------------------------------------------------------------
(* Template.__init__: the tokenizer and the repeat/endrepeat matching *)

\* TemplateTag(val, type, args).  value is "" where the code has None; args is
\* <<>> where the code has None or an empty list.
TemplateTag(val, type, args) == [value |-> val, type |-> type, args |-> args]

\* Template.tag_pattern.search(body, pos): <<start, end>> of the leftmost
\* '{' ... '}' at or after pos (end is the index of the '}'), <<0, 0>> if none
TagSearch(body, pos) ==
    LET o == IndexFrom(body, "{", pos)
        c == IF o = 0 THEN 0 ELSE IndexFrom(body, "}", o + 1)
    IN  IF o = 0 \/ c = 0 THEN <<0, 0>> ELSE <<o, c>>

\* [ el.strip() for el in args if el.strip() ], joined into names
RECURSIVE StripArgs(_)
StripArgs(args) ==
    IF args = <<>> THEN <<>>
    ELSE (IF Strip(Head(args)) # <<>> THEN <<Join(Strip(Head(args)))>> ELSE <<>>)
         \o StripArgs(Tail(args))

\* the tag for the text val found between braces (lines 130-150); type
\* "IndexError" stands for args.pop(0) raising on an empty list
ClassifyTag(val) ==
    CASE val = <<":">> -> TemplateTag("", "else", <<>>)
      [] val = <<"/">> -> TemplateTag("", "endif", <<>>)
      [] val = <<"{">> -> TemplateTag("{", "text", <<>>)
      [] val # <<>> /\ val # <<"{">> /\ Head(val) = "?" ->
            TemplateTag(Join(Tail(val)), "if", <<>>)
      [] val # <<>> /\ val # <<"{">> /\ Head(val) = "[" ->
            TemplateTag(Join(Tail(val)), "repeat", <<>>)
      [] val = <<"]">> -> TemplateTag("", "endrepeat", <<>>)
      [] val = <<>> -> TemplateTag("", "text", <<>>)
      [] OTHER ->
            IF IndexFrom(val, "|", 1) # 0
            THEN LET args == StripArgs(Split(val, "|"))
                 IN  IF args = <<>> THEN TemplateTag("", "IndexError", <<>>)
                     ELSE TemplateTag(Head(args), "var", Tail(args))
            ELSE TemplateTag(Join(val), "var", <<>>)

\* the while loop of Template.__init__ (lines 114-151)
RECURSIVE Tokenize(_, _, _)
Tokenize(body, pos, acc) ==
    LET m == TagSearch(body, pos)
    IN  IF m[1] = 0
        THEN IF pos <= Len(body)
             THEN Append(acc, TemplateTag(Join(SubSeq(body, pos, Len(body))), "text", <<>>))
             ELSE acc
        ELSE LET acc1 == IF m[1] > pos
                         THEN Append(acc, TemplateTag(Join(SubSeq(body, pos, m[1] - 1)),
                                                      "text", <<>>))
                         ELSE acc
                 val == SubSeq(body, m[1] + 1, m[2] - 1)
             IN  Tokenize(body, m[2] + 1, Append(acc1, ClassifyTag(val)))

\* an endrepeat matched with the first open repeat instead of the innermost
RECURSIVE MatchRepeatsOutermost(_, _, _, _)
MatchRepeatsOutermost(ls, pos, depths, dg) ==
    IF pos > Len(ls)
    THEN [ls |-> ls,
          diag |-> IF depths # <<>>
                   THEN Append(dg, "Problem: unmatched repeat-tag") ELSE dg]
    ELSE IF ls[pos].type = "repeat"
         THEN MatchRepeatsOutermost(ls, pos + 1, Append(depths, pos), dg)
    ELSE IF ls[pos].type = "endrepeat"
         THEN IF depths = <<>>
              THEN MatchRepeatsOutermost(ls, pos + 1, depths,
                                Append(dg, "Problem: unmatched endrepeat-tag"))
              ELSE LET val == depths[1]
                   IN  MatchRepeatsOutermost([ls EXCEPT ![val].args = <<pos - val>>],
                                             pos + 1, Tail(depths), dg)
    ELSE MatchRepeatsOutermost(ls, pos + 1, depths, dg)

\* the depths loop of Template.__init__ (lines 153-166): each repeat tag gets
\* args = [distance to its endrepeat]; unmatched tags are reported
RECURSIVE MatchRepeats(_, _, _, _)
MatchRepeats(ls, pos, depths, dg) ==
    IF pos > Len(ls)
    THEN [ls |-> ls,
          diag |-> IF depths # <<>>
                   THEN Append(dg, "Problem: unmatched repeat-tag") ELSE dg]
    ELSE IF ls[pos].type = "repeat"
         THEN MatchRepeats(ls, pos + 1, Append(depths, pos), dg)
    ELSE IF ls[pos].type = "endrepeat"
         THEN IF depths = <<>>
              THEN MatchRepeats(ls, pos + 1, depths,
                                Append(dg, "Problem: unmatched endrepeat-tag"))
              ELSE LET val == depths[Len(depths)]
                   IN  MatchRepeats([ls EXCEPT ![val].args = <<pos - val>>], pos + 1,
                                    SubSeq(depths, 1, Len(depths) - 1), dg)
    ELSE MatchRepeats(ls, pos + 1, depths, dg)

\* Template(body) for a string body: [ls, diag, exc]
TemplateInit(body) ==
    LET toks == Tokenize(body, 1, <<>>)
    IN  IF \E i \in 1..Len(toks) : toks[i].type = "IndexError"
        THEN [ls |-> <<>>, diag |-> <<>>, exc |-> "IndexError"]
        ELSE LET r == MatchRepeats(toks, 1, <<>>, <<>>)
             IN  [ls |-> r.ls, diag |-> r.diag, exc |-> ""]

-----------------------------------------------------------------------------
(* Template.subst.  The state of one call is [act, out, diag, exc]: the     *)
(* activelist, the text written so far, the lines printed so far, and the   *)
(* exception raised ("" while none).                                        *)

Raise(st, e) == [st EXCEPT !.exc = e]
Write(st, text) == [st EXCEPT !.out = @ \o text]
Problem(st, msg) == [st EXCEPT !.diag = Append(@, msg)]
Push(st, b) == [st EXCEPT !.act = Append(@, b)]
Pop(st) == [st EXCEPT !.act = SubSeq(@, 1, Len(@) - 1)]
\* activelist[-1], once the list is known to be non-empty
Active(st) == st.act[Len(st.act)]

\* tag.type is None (lines 197-200)
TagText(tag, st) ==
    IF st.act = <<>> THEN Raise(st, "IndexError")
    ELSE IF ~Active(st) THEN st
    ELSE Write(st, tag.value)

\* an if that only asks whether the name is bound to something
TagIfExists(tag, map, st) ==
    IF st.act = <<>> THEN Raise(st, "IndexError")
    ELSE IF ~Active(st) THEN Push(st, FALSE)
    ELSE Push(st, Lookup(map, tag.value).t # "none")

\* tag.type == 'if' (lines 201-208)
TagIf(tag, map, st) ==
    IF st.act = <<>> THEN Raise(st, "IndexError")
    ELSE IF ~Active(st) THEN Push(st, FALSE)
    ELSE Push(st, PyBool(Lookup(map, tag.value)))

\* an else that flips without looking at the enclosing conditional
TagElseAlwaysFlips(st) ==
    IF st.act = <<>> THEN Raise(st, "IndexError")
    ELSE [st EXCEPT !.act[Len(st.act)] = ~Active(st)]

\* tag.type == 'else' (lines 209-211)
TagElse(st) ==
    IF Len(st.act) <= 1 \/ st.act[Len(st.act) - 1]
    THEN IF st.act = <<>> THEN Raise(st, "IndexError")
         ELSE [st EXCEPT !.act[Len(st.act)] = ~Active(st)]
    ELSE st

\* tag.type == 'endif' (lines 212-213)
TagEndif(st) == IF st.act = <<>> THEN Raise(st, "IndexError") ELSE Pop(st)

\* tag.type == 'endrepeat' (lines 248-249)
TagEndRepeat(st) == IF st.act = <<>> THEN Raise(st, "IndexError") ELSE Pop(st)

\* a var tag that lets an unprintable value raise instead of marking it
TagVarRaises(tag, map, st) ==
    IF st.act = <<>> THEN Raise(st, "IndexError")
    ELSE IF ~Active(st) THEN st
    ELSE LET val == Lookup(map, tag.value)
         IN  IF val.t = "none"
             THEN Problem(Write(st, "[UNKNOWN]"),
                          "Problem: undefined brace-tag: " \o tag.value)
             ELSE IF val.t = "func"
             THEN LET st1 == Write(st, Join(val.v))
                  IN  IF tag.args # <<>>
                      THEN Problem(st1, "Problem: cannot use filters with a callable value")
                      ELSE st1
             ELSE IF val.t \in {"str", "int", "bool"}
             THEN LET r == RunFilters(tag.args, PyStr(val), st.diag)
                  IN  [st EXCEPT !.out = @ \o Join(r.res), !.diag = r.diag]
             ELSE Raise(st, "TypeError")

\* tag.type == 'var' (lines 250-275)
TagVar(tag, map, st) ==
    IF st.act = <<>> THEN Raise(st, "IndexError")
    ELSE IF ~Active(st) THEN st
    ELSE LET val == Lookup(map, tag.value)
         IN  IF val.t = "none"
             THEN Problem(Write(st, "[UNKNOWN]"),
                          "Problem: undefined brace-tag: " \o tag.value)
             ELSE IF val.t = "func"
             THEN LET st1 == Write(st, Join(val.v))
                  IN  IF tag.args # <<>>
                      THEN Problem(st1, "Problem: cannot use filters with a callable value")
                      ELSE st1
             ELSE IF val.t \in {"str", "int", "bool"}
             THEN LET r == RunFilters(tag.args, PyStr(val), st.diag)
                  IN  [st EXCEPT !.out = @ \o Join(r.res), !.diag = r.diag]
             ELSE Problem(Write(st, "[NOT-PRINTABLE]"),
                          "Problem: unprintable brace-tag type: " \o tag.value)

RECURSIVE SubstFrom(_, _, _, _)
RECURSIVE RepeatLoop(_, _, _, _, _, _)

\* subtemplate.subst(submap, outfl): a call with its own activelist, writing
\* to the same stream
SubstCall(ls, map, st) ==
    LET r == SubstFrom(ls, 1, map, [st EXCEPT !.act = <<TRUE>>, !.map = map])
    IN  [r EXCEPT !.act = st.act]

\* the for loops of lines 228-231 (val a list or tuple) and 239-243 (val a
\* dict, whose items are <<key, value>> pairs)
RepeatLoop(sub, tag, val, i, submap, st) ==
    IF st.exc # "" THEN st
    ELSE IF i > Len(val.v) THEN [st EXCEPT !.map = submap]
    ELSE LET m1 == IF val.t = "dict"
                   THEN ChainSet(ChainSet(submap, tag.value \o ":key", val.v[i][1]),
                                 tag.value \o ":value", val.v[i][2])
                   ELSE ChainSet(submap, tag.value \o ":value", val.v[i])
             st1 == SubstCall(sub, m1, st)
             m2 == ChainSet(st1.map, tag.value \o ":first", VBool(FALSE))
         IN  RepeatLoop(sub, tag, val, i + 1, m2, st1)

\* tag.type == 'repeat' (lines 214-247); pos is the tag's index in ls
TagRepeat(ls, pos, map, st) ==
    IF st.act = <<>> THEN Raise(st, "IndexError")
    ELSE IF ~Active(st) THEN Push(st, FALSE)
    ELSE LET tag == ls[pos]
             val == Lookup(map, tag.value)
             first == [k \in {tag.value \o ":first"} |-> VBool(TRUE)]
         IN  IF val.t = "none"
             THEN Push(Problem(Write(st, "[UNKNOWN]"),
                               "Problem: undefined brace-tag: " \o tag.value), FALSE)
             ELSE IF val.t \in {"list", "dict"}
             THEN IF tag.args = <<>>
                  THEN Raise(st, "TypeError")
                  ELSE LET subls == PySlice(ls, pos + 1, pos + tag.args[1] - 1)
                           st1 == RepeatLoop(subls, tag, val, 1,
                                             ChainNew(first, map), st)
                           st2 == [st1 EXCEPT !.map = ChainRest(@, map)]
                       IN  IF st2.exc # "" THEN st2 ELSE Push(st2, FALSE)
             ELSE Push(Problem(Write(st, "[NOT-REPEATABLE]"),
                               "Problem: unrepeatable tag type: " \o tag.value), FALSE)

\* one iteration of the for loop of Template.subst (line 196)
SubstTag(ls, pos, map, st) ==
    LET tag == ls[pos]
    IN  CASE tag.type = "text" -> TagText(tag, st)
          [] tag.type = "if" -> TagIf(tag, map, st)
          [] tag.type = "else" -> TagElse(st)
          [] tag.type = "endif" -> TagEndif(st)
          [] tag.type = "repeat" -> TagRepeat(ls, pos, map, st)
          [] tag.type = "endrepeat" -> TagEndRepeat(st)
          [] tag.type = "var" -> TagVar(tag, map, st)

SubstFrom(ls, pos, map, st) ==
    IF pos > Len(ls) \/ st.exc # "" THEN st
    ELSE LET st1 == SubstTag(ls, pos, map, st)
         IN  SubstFrom(ls, pos + 1, st1.map, st1)

\* template.subst(map, outfl), writing to an empty outfl; the map field is the
\* caller's map as the call leaves it
Subst(ls, map, dg) ==
    SubstFrom(ls, 1, map, [act |-> <<TRUE>>, out |-> "", diag |-> dg, exc |-> "",
                           map |-> map])

-----------------------------------------------------------------------------
(* The templates and binding maps the model renders *)

Chars_string == <<"s", "t", "r", "i", "n", "g">>
Chars_function == <<"f", "u", "n", "c", "t", "i", "o", "n">>

Brace(s) == <<"{">> \o s \o <<"}">>
IfPiece(name) == Brace(<<"?">> \o name)
ElsePiece == Brace(<<":">>)
EndifPiece == Brace(<<"/">>)
RepeatPiece(name) == Brace(<<"[">> \o name)
EndRepeatPiece == Brace(<<"]">>)

FilterChars(f) ==
    CASE f = "html" -> <<"h", "t", "m", "l">>
      [] f = "upper" -> <<"u", "p", "p", "e", "r">>
      [] f = "slashwbr" -> <<"s", "l", "a", "s", "h", "w", "b", "r">>
      [] f = "nofilter" -> <<"n", "o", "f", "i", "l", "t", "e", "r">>

RECURSIVE PipeChars(_)
PipeChars(fs) ==
    IF fs = <<>> THEN <<>> ELSE <<"|">> \o FilterChars(Head(fs)) \o PipeChars(Tail(fs))

\* {name|f1|f2...}
VarPiece(name, fs) == Brace(name \o PipeChars(fs))

SeqsUpTo(S, n) == UNION {[1..k -> S] : k \in 0..n}

\* a binding that is not there
Absent == [t |-> "absent", v |-> 0]

\* the dict with the given <<key, value>> items, Absent ones left out
DictOf(items) ==
    LET present == {i \in 1..Len(items) : items[i][2] # Absent}
    IN  [k \in {items[i][1] : i \in present} |->
            items[CHOOSE i \in present : items[i][1] = k][2]]

(* Conditional family: every sequence of text, {?x}, {?y}, {:} and {/} up to
   MaxPieces segments whose {?..}/{/} are balanced.  The text segment at
   position i is the i-th letter, so the output tells which were written. *)
CondKinds == {"text", "ifx", "ify", "else", "endif"}

RECURSIVE BalancedFrom(_, _, _)
BalancedFrom(shape, i, depth) ==
    IF i > Len(shape) THEN depth = 0
    ELSE IF shape[i] \in {"ifx", "ify"} THEN BalancedFrom(shape, i + 1, depth + 1)
    ELSE IF shape[i] = "endif" THEN depth > 0 /\ BalancedFrom(shape, i + 1, depth - 1)
    ELSE BalancedFrom(shape, i + 1, depth)

CondPiece(shape, i) ==
    CASE shape[i] = "text" -> <<LowerChars[i]>>
      [] shape[i] = "ifx" -> IfPiece(<<"x">>)
      [] shape[i] = "ify" -> IfPiece(<<"y">>)
      [] shape[i] = "else" -> ElsePiece
      [] shape[i] = "endif" -> EndifPiece

CondTemplates ==
    {[i \in 1..Len(shape) |-> CondPiece(shape, i)] :
        shape \in {sh \in SeqsUpTo(CondKinds, MaxPieces) : BalancedFrom(sh, 1, 0)}}

\* the flags of the conditional family: there (and true) or not there
FlagValues == {Absent, VBool(TRUE)}

\* {?x}yes{:}no{/} and {?x}yes{/}
YesNoTemplate == <<IfPiece(<<"x">>), <<"y", "e", "s">>, ElsePiece, <<"n", "o">>, EndifPiece>>
YesTemplate == <<IfPiece(<<"x">>), <<"y", "e", "s">>, EndifPiece>>

\* the values x takes in the two templates above
XValues == {Absent, VNone, VBool(FALSE), VBool(TRUE), VInt(0), VInt(987),
            VStr(<<>>), VStr(Chars_string), VFunc(Chars_function)}

CondInputs ==
    {<<p, DictOf(<<<<"x", xv>>, <<"y", yv>>>>)>> :
        p \in CondTemplates, xv \in FlagValues, yv \in FlagValues}
    \cup {<<p, DictOf(<<<<"x", xv>>>>)>> :
            p \in {YesNoTemplate, YesTemplate}, xv \in XValues}

(* Variable family: {v|fs1},{v|fs2}. for every filter pipeline fs1 up to
   MaxFilters names and every fs2 of at most one name; "nofilter" is not a
   registered filter. *)
PipeNames == {"html", "upper", "nofilter"}

VarTemplate(fs1, fs2) ==
    <<VarPiece(<<"v">>, fs1), <<",">>, VarPiece(<<"v">>, fs2), <<".">>>>

VValues == {Absent, VNone, VStr(<<"a", "&", "b">>), VInt(12), VBool(TRUE),
            VFunc(Chars_function), VList(<<VInt(1)>>), VObject,
            VDict(<<<<VStr(<<"k">>), VInt(7)>>>>)}

VarInputs ==
    {<<VarTemplate(fs1, fs2), DictOf(<<<<"v", vv>>>>)>> :
        fs1 \in SeqsUpTo(PipeNames, MaxFilters),
        fs2 \in SeqsUpTo(PipeNames, 1), vv \in VValues}

(* Repetition family: every sequence of text, {[r}, {]} and {r:value} up to
   MaxRepPieces segments (matched or not), and two fixed templates: one that
   uses r:first, one that nests a repetition over s in one over r. *)
RepKinds == {"text", "repeat", "endrepeat", "value"}

RepPiece(shape, i) ==
    CASE shape[i] = "text" -> <<LowerChars[i]>>
      [] shape[i] = "repeat" -> RepeatPiece(<<"r">>)
      [] shape[i] = "endrepeat" -> EndRepeatPiece
      [] shape[i] = "value" -> VarPiece(<<"r", ":", "v", "a", "l", "u", "e">>, <<>>)

RepTemplates ==
    {[i \in 1..Len(shape) |-> RepPiece(shape, i)] : shape \in SeqsUpTo(RepKinds, MaxRepPieces)}

\* {[r}<{r:value}{?r:first}F{:}N{/}{]}T
FirstTemplate ==
    <<RepeatPiece(<<"r">>), <<"<">>, VarPiece(<<"r", ":", "v", "a", "l", "u", "e">>, <<>>),
      IfPiece(<<"r", ":", "f", "i", "r", "s", "t">>), <<"F">>, ElsePiece, <<"N">>,
      EndifPiece, EndRepeatPiece, <<"T">>>>

\* {[r}A{[s}B{s:value}{]}C{r:value}{]}D
NestedTemplate ==
    <<RepeatPiece(<<"r">>), <<"A">>, RepeatPiece(<<"s">>), <<"B">>,
      VarPiece(<<"s", ":", "v", "a", "l", "u", "e">>, <<>>), EndRepeatPiece, <<"C">>,
      VarPiece(<<"r", ":", "v", "a", "l", "u", "e">>, <<>>), EndRepeatPiece, <<"D">>>>

\* the lists [1], [1, 2], ... up to MaxList elements, and the empty list
Lists == {VList([i \in 1..n |-> VInt(i)]) : n \in 0..MaxList}

RValues == Lists \cup {Absent, VStr(Chars_string), VObject,
                       VDict(<<<<VStr(<<"k">>), VInt(7)>>>>)}

RepInputs ==
    {<<p, DictOf(<<<<"r", rv>>>>)>> : p \in RepTemplates, rv \in RValues}
    \cup {<<p, DictOf(<<<<"r", rv>>, <<"s", sv>>>>)>> :
            p \in {FirstTemplate, NestedTemplate}, rv \in RValues, sv \in Lists}

TemplateInputs == CondInputs \cup VarInputs \cup RepInputs

-----------------------------------------------------------------------------
(* The archive tree: ArchiveTree.dirmap, Directory and File.  dirmap and    *)
(* Directory.files are Python dicts; they are kept as sequences in         *)
(* insertion order, looked up by name.  A name or path is a sequence of    *)
(* characters; <<>> stands for None where a name is expected.              *)

ROOTNAME == <<"i", "f", "-", "a", "r", "c", "h", "i", "v", "e">>

\* str.rfind(ch): the greatest index i with s[i] = ch, or 0
LastIndexOf(s, ch) ==
    IF \E i \in 1..Len(s) : s[i] = ch
    THEN CHOOSE i \in 1..Len(s) :
            s[i] = ch /\ \A j \in (i + 1)..Len(s) : s[j] # ch
    ELSE 0

\* str.startswith(p)
StartsWith(s, p) == Len(s) >= Len(p) /\ SubSeq(s, 1, Len(p)) = p

\* a+'/'+b
PathJoin(a, b) == a \o <<"/">> \o b

\* '\n'.join(lines)
RECURSIVE JoinLines(_)
JoinLines(lines) ==
    IF lines = <<>> THEN <<>>
    ELSE IF Len(lines) = 1 THEN lines[1]
    ELSE lines[1] \o <<"\n">> \o JoinLines(Tail(lines))

\* is_string_nonwhite(val)
is_string_nonwhite(val) == Strip(val) # <<>>

\* a submap (dict of template keys) with nothing in it
NoKeys == [k \in {} |-> <<>>]

\* submap[key] = val
PutKey(m, key, val) ==
    [k \in (DOMAIN m) \cup {key} |-> IF k = key THEN val ELSE m[k]]

\* the putkey calls in keys, a sequence of <<key, value>>, in order
RECURSIVE PutKeys(_, _)
PutKeys(m, keys) ==
    IF keys = <<>> THEN m
    ELSE PutKeys(PutKey(m, keys[1][1], keys[1][2]), Tail(keys))

\* submap.get(key) is not None
HasKey(m, key) == key \in DOMAIN m

\* metadata[key] = vals, in an OrderedDict kept as a sequence of <<key, vals>>
MetaPut(md, key, vals) ==
    IF \E i \in 1..Len(md) : md[i][1] = key
    THEN [i \in 1..Len(md) |-> IF md[i][1] = key THEN <<key, vals>> ELSE md[i]]
    ELSE Append(md, <<key, vals>>)

\* for (mkey, mls) in Meta.items(): metadata[mkey] = list(mls)
RECURSIVE MetaUpdate(_, _)
MetaUpdate(md, items) ==
    IF items = <<>> THEN md
    ELSE MetaUpdate(MetaPut(md, items[1][1], items[1][2]), Tail(items))

\* Directory(dirname)
Directory(dirname) ==
    LET pos == LastIndexOf(dirname, "/")
    IN  [dir |-> dirname,
         submap |->
            IF pos = 0 THEN PutKey(NoKeys, "dir", dirname)
            ELSE PutKey(PutKey(NoKeys, "dir", dirname),
                        "parentdir", SubSeq(dirname, 1, pos - 1)),
         parentdirname |-> IF pos = 0 THEN <<>> ELSE SubSeq(dirname, 1, pos - 1),
         barename |-> IF pos = 0 THEN dirname
                      ELSE SubSeq(dirname, pos + 1, Len(dirname)),
         files |-> <<>>,
         subdirs |-> <<>>,
         parentdir |-> <<>>,
         metadata |-> <<>>]

\* position of dirname in dirmap, 0 when dirmap.get(dirname) is None
DirPos(dm, dirname) ==
    IF \E i \in 1..Len(dm) : dm[i].dir = dirname
    THEN CHOOSE i \in 1..Len(dm) : dm[i].dir = dirname
    ELSE 0

\* ArchiveTree.get_directory(dirname, oradd): the dirmap after the call
get_directory(dm, dirname, oradd) ==
    IF DirPos(dm, dirname) # 0 \/ ~oradd THEN dm
    ELSE Append(dm, Directory(dirname))

\* position of filename in dir.files, 0 when dir.files.get(filename) is None
FilePos(d, filename) ==
    IF \E i \in 1..Len(d.files) : d.files[i].name = filename
    THEN CHOOSE i \in 1..Len(d.files) : d.files[i].name = filename
    ELSE 0

\* File(filename, parentdir, isdir, islink), before it is placed in parentdir
File(filename, dirname, isdir, islink) ==
    LET m0 == PutKey(PutKey(PutKey(NoKeys, "name", filename), "dir", dirname),
                     "path", PathJoin(dirname, filename))
        m1 == IF ~islink
              THEN (IF isdir THEN PutKey(m0, "isdir", TRUE) ELSE m0)
              ELSE PutKey(PutKey(m0, "islink", TRUE),
                          IF isdir THEN "islinkdir" ELSE "islinkfile", TRUE)
    IN  [name |-> filename,
         path |-> PathJoin(dirname, filename),
         metadata |-> <<>>,
         isdir |-> isdir,
         islink |-> islink,
         isdeep |-> (\E i \in 1..Len(filename) : filename[i] = "/"),
         intree |-> FALSE,
         inmaster |-> FALSE,
         submap |-> m1]

\* parentdir.files[filename] = self (line 701), for a name not yet in files
AddFile(dm, dp, f) == [dm EXCEPT ![dp].files = Append(@, f)]

\* the dirmap with File fp of Directory dp replaced by f
SetFile(dm, dp, fp, f) == [dm EXCEPT ![dp].files[fp] = f]

\* a File(...) made for the name whether the directory has one or not
GetOrAddFileFresh(dm, dp, filename, isdir, islink) ==
    IF FilePos(dm[dp], filename) # 0
    THEN [dm EXCEPT ![dp].files[FilePos(dm[dp], filename)] =
                        File(filename, dm[dp].dir, isdir, islink)]
    ELSE AddFile(dm, dp, File(filename, dm[dp].dir, isdir, islink))

\* dir.files.get(filename), creating File(filename, dir, isdir, islink) when
\* it is None: the dirmap in which the File exists
GetOrAddFile(dm, dp, filename, isdir, islink) ==
    IF FilePos(dm[dp], filename) # 0 THEN dm
    ELSE AddFile(dm, dp, File(filename, dm[dp].dir, isdir, islink))

-----------------------------------------------------------------------------
(* Descriptions: Markdown with the 'meta' extension (convertermeta) and     *)
(* stripmetadata.  The meta extension is modelled by its rules for the     *)
(* leading "key: value" lines; the HTML rendering of the remaining text is *)
(* not computed: it is kept as the lines that were rendered.               *)

KeyChars ==
    {LowerChars[i] : i \in 1..Len(LowerChars)}
    \cup {UpperChars[i] : i \in 1..Len(UpperChars)}
    \cup {DigitChars[i] : i \in 1..Len(DigitChars)} \cup {"_", "-"}

LowerChar(c) ==
    IF \E i \in 1..Len(UpperChars) : UpperChars[i] = c
    THEN LowerChars[CHOOSE i \in 1..Len(UpperChars) : UpperChars[i] = c]
    ELSE c

\* str.lower()
lower(s) == [i \in 1..Len(s) |-> LowerChar(s[i])]

\* number of characters at the start of s that are in S
RECURSIVE RunLength(_, _)
RunLength(s, S) ==
    IF s # <<>> /\ Head(s) \in S THEN 1 + RunLength(Tail(s), S) ELSE 0

\* s[n:]
Drop(s, n) == SubSeq(s, n + 1, Len(s))

\* '^[ ]*[a-zA-Z0-9_-]+:' for a line with sp leading spaces and k key
\* characters after them, sp being at most maxsp (-1: any number): the
\* position of the colon, 0 when the line does not match
KeyColonAt(ln, maxsp, sp, k) ==
    IF /\ (maxsp < 0 \/ sp <= maxsp)
       /\ k >= 1
       /\ sp + k + 1 <= Len(ln)
       /\ ln[sp + k + 1] = ":"
    THEN sp + k + 1 ELSE 0

KeyRun(ln, sp) == RunLength(Drop(ln, sp), KeyChars)

KeyColon(ln, maxsp) ==
    KeyColonAt(ln, maxsp, RunLength(ln, {" "}), KeyRun(ln, RunLength(ln, {" "})))

\* metadata_pattern.match(ln)
metadata_pattern(ln) == KeyColon(ln, -1) # 0

\* META_RE '^[ ]{0,3}(?P<key>[A-Za-z0-9_-]+):\s*(?P<value>.*)'
MetaKey(line) == lower(Strip(SubSeq(line, 1, KeyColon(line, 3) - 1)))
MetaValue(line) == Strip(Drop(line, KeyColon(line, 3)))

\* a blank line, or END_RE '^(-{3}|\.{3})(\s.*)?'
MetaEnds(line) ==
    \/ Strip(line) = <<>>
    \/ StartsWith(line, <<"-", "-", "-">>)
    \/ StartsWith(line, <<".", ".", ".">>)

\* meta[key], <<>> when it has none
MetaGet(meta, key) ==
    IF \E i \in 1..Len(meta) : meta[i][1] = key
    THEN meta[CHOOSE i \in 1..Len(meta) : meta[i][1] = key][2]
    ELSE <<>>

\* meta[key].append(value), or meta[key] = [value]
MetaAdd(meta, key, value) == MetaPut(meta, key, Append(MetaGet(meta, key), value))

\* the meta extension's preprocessor: lines are consumed from the front while
\* they are "key: value" lines (at most 3 leading spaces) or continuation
\* lines (4 or more leading spaces) of a key; a blank line or a line starting
\* with --- or ... ends the metadata and is consumed too
RECURSIVE MetaRun(_, _, _)
MetaRun(lines, meta, key) ==
    IF lines = <<>> THEN [Meta |-> meta, rest |-> <<>>]
    ELSE IF MetaEnds(Head(lines)) THEN [Meta |-> meta, rest |-> Tail(lines)]
    ELSE IF KeyColon(Head(lines), 3) # 0
    THEN MetaRun(Tail(lines),
                 MetaAdd(meta, MetaKey(Head(lines)), MetaValue(Head(lines))),
                 MetaKey(Head(lines)))
    ELSE IF StartsWith(Head(lines), <<" ", " ", " ", " ">>) /\ key # <<>>
    THEN MetaRun(Tail(lines), MetaAdd(meta, key, Strip(Head(lines))), key)
    ELSE [Meta |-> meta, rest |-> lines]

\* the lines without the blank lines before the first and after the last
\* line that has text
RECURSIVE TrimBlank(_)
TrimBlank(lines) ==
    IF lines = <<>> THEN <<>>
    ELSE IF Strip(Head(lines)) = <<>> THEN TrimBlank(Tail(lines))
    ELSE IF Strip(lines[Len(lines)]) = <<>>
    THEN TrimBlank(SubSeq(lines, 1, Len(lines) - 1))
    ELSE lines

\* BEGIN_RE '^-{3}(\s.*)?': a first line starting with --- is left out
SkipBegin(lines) ==
    IF lines # <<>> /\ StartsWith(lines[1], <<"-", "-", "-">>)
    THEN Tail(lines) ELSE lines

Rendered(r) == [Meta |-> r.Meta, html |-> TrimBlank(r.rest)]

\* convertermeta.convert(val): Meta, and the text that is rendered as HTML
\* ('' when there is none)
MarkdownConvert(val) ==
    Rendered(MetaRun(SkipBegin(IF val = <<>> THEN <<>> ELSE Split(val, "\n")),
                     <<>>, <<>>))

\* stripmetadata(lines): number of leading lines that are left out
RECURSIVE StripCount(_)
StripCount(lines) ==
    IF lines = <<>> THEN 0
    ELSE IF Strip(Head(lines)) = <<>> THEN 0
    ELSE IF ~(\/ metadata_pattern(Head(lines))
              \/ StartsWith(Head(lines), <<" ", " ", " ", " ">>))
    THEN 0
    ELSE 1 + StripCount(Tail(lines))

\* stripmetadata(lines)
stripmetadata(lines) ==
    RStrip(JoinLines(Drop(lines, StripCount(lines)))) \o <<"\n">>

\* lines 736-749: the keys and metadata of the description
SetDesc(f, md, descstr) ==
    [f EXCEPT !.metadata = MetaUpdate(@, md.Meta),
              !.submap = PutKeys(@,
                << <<"hasmetadata", MetaUpdate(f.metadata, md.Meta) # <<>> >>,
                   <<"desc", md.html>>,
                   <<"hasdesc", md.html # <<>> >>,
                   <<"xmldesc", descstr>>,
                   <<"hasxmldesc", is_string_nonwhite(descstr)>> >>)]

\* File.complete(desclines)
complete(f, desclines) ==
    IF desclines = <<>> THEN f
    ELSE SetDesc(f, MarkdownConvert(JoinLines(desclines)), stripmetadata(desclines))

-----------------------------------------------------------------------------
(* parse_master_index(indexpath, archtree).  The state of the loop is a     *)
(* record ps: dm (archtree.dirmap), err (what was written to stderr), dir  *)
(* and file (the names of the Directory and File being filled in, <<>> for *)
(* None), filedesclines, inheader, headerlines.                            *)

\* dirname_pattern '^#[ ]*(if\-archive.*):$': group(1), <<>> when no match
dirname_pattern(ln) ==
    IF Len(ln) >= 2 /\ ln[1] = "#" /\ ln[Len(ln)] = ":"
    THEN LET sp == RunLength(Tail(ln), {" "})
             g == IF sp + 2 <= Len(ln) - 1
                  THEN SubSeq(ln, sp + 2, Len(ln) - 1) ELSE <<>>
         IN  IF StartsWith(g, ROOTNAME) THEN g ELSE <<>>
    ELSE <<>>

\* filename_pattern '^##[^#]'
filename_pattern(bx) ==
    Len(bx) >= 3 /\ bx[1] = "#" /\ bx[2] = "#" /\ bx[3] \notin {"#", "\n"}

\* the class [-+=#*]
DashFirst == {"-", "+", "=", "#", "*"}

\* the class [ -+=#*]: the range from space to +, and = # *
DashRest == {" ", "!", "\"", "#", "$", "%", "&", "'", "(", ")", "*", "+", "="}

\* dashline_pattern '^[ ]*[-+=#*]+[ -+=#*]*$'
dashline_pattern(ln) ==
    LET r == Drop(ln, RunLength(ln, {" "}))
        k == RunLength(r, DashFirst)
        rest == Drop(r, k)
    IN  k >= 1 /\ \A i \in 1..Len(rest) : rest[i] \in DashRest

\* a line of stderr
ErrLine(msg, name, dirname) == [msg |-> msg, name |-> name, dir |-> dirname]

\* lines 795-797 and 852-855: if file: file.complete(filedesclines); file = None
CompleteFile(ps) ==
    IF ps.file = <<>> THEN ps
    ELSE LET dp == DirPos(ps.dm, ps.dir)
             fp == FilePos(ps.dm[dp], ps.file)
         IN  [ps EXCEPT
                !.dm = SetFile(ps.dm, dp, fp,
                               complete(ps.dm[dp].files[fp], ps.filedesclines)),
                !.file = <<>>]

\* headerstr (lines 802-803)
HeaderStr(headerlines) == RStrip(JoinLines(headerlines)) \o <<"\n">>

\* lines 811-820: the keys and metadata of a header that has text
SetHeader(d, headerstr, md) ==
    [d EXCEPT !.metadata = MetaUpdate(@, md.Meta),
              !.submap = PutKeys(@,
                << <<"hasdesc", TRUE>>,
                   <<"hasxmldesc", TRUE>>,
                   <<"hasmetadata", MetaUpdate(d.metadata, md.Meta) # <<>> >>,
                   <<"headerormeta",
                     MetaUpdate(d.metadata, md.Meta) # <<>> \/ md.html # <<>> >>,
                   <<"header", md.html>>,
                   <<"xmlheader", stripmetadata(Split(headerstr, "\n"))>> >>)]

\* lines 802-820: the Directory with its header
FinishHeader(d, headerstr) ==
    IF Strip(headerstr) # <<>>
    THEN SetHeader(d, headerstr, MarkdownConvert(headerstr))
    ELSE [d EXCEPT !.submap =
            PutKeys(@, << <<"hasdesc", FALSE>>, <<"hasxmldesc", FALSE>> >>)]

\* lines 798-821, for the Directory at position dp of dirmap
FinishDirAt(ps, dp) ==
    [ps EXCEPT !.dm[dp] = FinishHeader(@, HeaderStr(ps.headerlines)),
               !.dir = <<>>]

\* lines 792-821: the end of a directory block, or of the file
FinishDir(ps) ==
    IF ps.dir = <<>> THEN ps
    ELSE FinishDirAt(CompleteFile(ps), DirPos(ps.dm, ps.dir))

\* lines 823-833: the beginning of a directory block
StartDir(ps, dirname) ==
    [ps EXCEPT !.dm = get_directory(ps.dm, dirname, TRUE),
               !.dir = dirname,
               !.filedesclines = <<>>,
               !.inheader = TRUE,
               !.headerlines = <<>>]

\* lines 879-883: a marker with a plain name
PlainMarker(ps, filename) ==
    LET dp == DirPos(ps.dm, ps.dir)
        dm1 == GetOrAddFile(ps.dm, dp, filename, FALSE, FALSE)
        fp == FilePos(dm1[dp], filename)
    IN  [ps EXCEPT !.dm = [dm1 EXCEPT ![dp].files[fp].inmaster = TRUE],
                   !.file = filename]

\* lines 884-904, but creating the entry whatever the reference points at
DeepMarkerUnchecked(ps, filename) ==
    LET dp == DirPos(ps.dm, ps.dir)
    IN  [ps EXCEPT !.dm = GetOrAddFile(ps.dm, dp, filename, FALSE, FALSE),
                   !.file = filename]

\* lines 884-904: a marker with a deep reference, like "Comp/Games"
DeepMarker(ps, filename) ==
    LET pos == LastIndexOf(filename, "/")
        reldir == PathJoin(ps.dir, SubSeq(filename, 1, pos - 1))
        relfile == Drop(filename, pos)
        dp == DirPos(ps.dm, ps.dir)
        rp == DirPos(ps.dm, reldir)
        rf == IF rp = 0 THEN 0 ELSE FilePos(ps.dm[rp], relfile)
    IN  IF rp = 0
        THEN [ps EXCEPT !.err = Append(@,
                ErrLine("Compound file entry refers to a bad directory",
                        filename, ps.dir))]
        ELSE IF rf = 0
        THEN [ps EXCEPT !.err = Append(@,
                ErrLine("Compound file entry refers to a bad file",
                        filename, ps.dir))]
        ELSE LET dm1 == [ps.dm EXCEPT ![rp].files[rf].inmaster = TRUE]
                 target == dm1[rp].files[rf]
                 f0 == File(filename, ps.dir, target.isdir, target.islink)
                 f == IF f0.isdir
                      THEN [f0 EXCEPT !.submap =
                              PutKey(@, "linkdir", PathJoin(ps.dir, filename))]
                      ELSE f0
             IN  IF FilePos(dm1[dp], filename) # 0
                 THEN [ps EXCEPT !.dm = dm1,
                                 !.file = filename,
                                 !.err = Append(@,
                                    ErrLine("Compound file entry appears twice",
                                            filename, ps.dir))]
                 ELSE [ps EXCEPT !.dm = AddFile(dm1, dp, f), !.file = filename]

\* lines 860-905: the new file block
NewMarker(ps, filename) ==
    IF \A i \in 1..Len(filename) : filename[i] # "/"
    THEN PlainMarker(ps, filename)
    ELSE DeepMarker(ps, filename)

\* lines 849-905: a line that starts a file block
FileMarker(ps, bx) ==
    NewMarker([CompleteFile(ps) EXCEPT !.inheader = FALSE, !.filedesclines = <<>>],
              Strip(Drop(bx, 2)))

\* lines 782-908: one line of the file
ParseLine(ps, raw) ==
    LET ln == RStrip(raw)
        dirname == dirname_pattern(ln)
    IN  IF dirname # <<>> THEN StartDir(FinishDir(ps), dirname)
        ELSE IF ps.dir = <<>> THEN ps
        ELSE IF dashline_pattern(ln) THEN ps
        ELSE IF ps.inheader /\ ~filename_pattern(ln)
        THEN [ps EXCEPT !.headerlines = Append(@, ln)]
        ELSE IF filename_pattern(ln) THEN FileMarker(ps, ln)
        ELSE [ps EXCEPT !.filedesclines = Append(@, ln)]

RECURSIVE ParseLines(_, _)
ParseLines(ps, lines) ==
    IF lines = <<>> THEN ps
    ELSE ParseLines(ParseLine(ps, Head(lines)), Tail(lines))

\* parse_master_index: dirmap and stderr after the whole file was read
parse_master_index(lines, dm, err) ==
    FinishDir(ParseLines([dm |-> dm, err |-> err, dir |-> <<>>, file |-> <<>>,
                          filedesclines |-> <<>>, inheader |-> TRUE,
                          headerlines |-> <<>>], lines))

-----------------------------------------------------------------------------
(* parse_directory_tree(treedir, archtree).  The disk is a sequence of     *)
(* directory entries in the order os.scandir returns them, each with the   *)
(* directory it is in (dir, relative to treedir), its name, what it is     *)
(* (kind), st_size, st_mtime (of the target, for a symlink), the symlink's *)
(* destination (link) and the file's contents (data).                      *)

\* os.path.join(a, b)
OsPathJoin(a, b) ==
    IF b # <<>> /\ b[1] = "/" THEN b
    ELSE IF a = <<>> \/ a[Len(a)] = "/" THEN a \o b
    ELSE a \o <<"/">> \o b

\* the components of a path as os.path.normpath keeps them
RECURSIVE NormComps(_, _, _)
NormComps(comps, acc, isabs) ==
    IF comps = <<>> THEN acc
    ELSE LET c == Head(comps)
         IN  IF c = <<>> \/ c = <<".">> THEN NormComps(Tail(comps), acc, isabs)
             ELSE IF c = <<".", ".">>
             THEN IF acc # <<>> /\ acc[Len(acc)] # <<".", ".">>
                  THEN NormComps(Tail(comps), SubSeq(acc, 1, Len(acc) - 1), isabs)
                  ELSE IF isabs THEN NormComps(Tail(comps), acc, isabs)
                  ELSE NormComps(Tail(comps), Append(acc, c), isabs)
             ELSE NormComps(Tail(comps), Append(acc, c), isabs)

RECURSIVE JoinSlash(_)
JoinSlash(comps) ==
    IF comps = <<>> THEN <<>>
    ELSE IF Len(comps) = 1 THEN comps[1]
    ELSE comps[1] \o <<"/">> \o JoinSlash(Tail(comps))

\* os.path.normpath(p), for a path that does not start with two slashes
normpath(p) ==
    LET isabs == p # <<>> /\ p[1] = "/"
        joined == JoinSlash(NormComps(Split(p, "/"), <<>>, isabs))
    IN  IF isabs THEN <<"/">> \o joined
        ELSE IF joined = <<>> THEN <<".">> ELSE joined

\* the %b of the months
MonthNames ==
    << <<"J", "a", "n">>, <<"F", "e", "b">>, <<"M", "a", "r">>,
       <<"A", "p", "r">>, <<"M", "a", "y">>, <<"J", "u", "n">>,
       <<"J", "u", "l">>, <<"A", "u", "g">>, <<"S", "e", "p">>,
       <<"O", "c", "t">>, <<"N", "o", "v">>, <<"D", "e", "c">> >>

\* time.gmtime(t): the year, month and day of a time t >= 0, in the
\* Gregorian calendar (the year is counted from March within 400-year eras)
gmtime(t) ==
    LET z == (t \div 86400) + 719468
        era == z \div 146097
        doe == z - era * 146097
        yoe == (doe - doe \div 1460 + doe \div 36524 - doe \div 146096) \div 365
        doy == doe - (365 * yoe + yoe \div 4 - yoe \div 100)
        mp == (5 * doy + 2) \div 153
        mon == IF mp < 10 THEN mp + 3 ELSE mp - 9
    IN  [year |-> yoe + era * 400 + (IF mon <= 2 THEN 1 ELSE 0),
         mon |-> mon,
         mday |-> doy - (153 * mp + 2) \div 5 + 1]

\* time.strftime('%d-%b-%Y', time.gmtime(t))
strftime(t) ==
    LET tm == gmtime(t)
        dd == IF tm.mday < 10 THEN <<"0">> \o NatToChars(tm.mday)
              ELSE NatToChars(tm.mday)
    IN  dd \o <<"-">> \o MonthNames[tm.mon] \o <<"-">> \o NatToChars(tm.year)

\* FileHasher.calculate_hashes(filename): the digests of the file's contents
calculate_hashes(data) ==
    [md5 |-> <<"md5", data>>, sha512 |-> <<"sha512", data>>]

\* a FileHasher that trusts a cache entry as soon as the size matches
get_hashes_sizeonly(hc, hf, filename, size, timestamp, data) ==
    IF /\ filename \in DOMAIN hc
       /\ hc[filename].size = size
    THEN [md5 |-> hc[filename].md5, sha512 |-> hc[filename].sha512,
          cache |-> hc, file |-> hf, reads |-> 0]
    ELSE LET h == calculate_hashes(data)
             rec == [size |-> size, timestamp |-> timestamp,
                     md5 |-> h.md5, sha512 |-> h.sha512]
             line == [size |-> size, timestamp |-> timestamp, md5 |-> h.md5,
                      sha512 |-> h.sha512, filename |-> filename]
         IN  [md5 |-> h.md5, sha512 |-> h.sha512,
              cache |-> [k \in (DOMAIN hc) \cup {filename} |->
                            IF k = filename THEN rec ELSE hc[k]],
              file |-> Append(hf, line), reads |-> 1]

\* FileHasher.get_hashes(filename, size, timestamp): the digests, and the
\* cache and cache file after the call (reads: how often the file was read)
get_hashes(hc, hf, filename, size, timestamp, data) ==
    IF /\ filename \in DOMAIN hc
       /\ hc[filename].size = size
       /\ hc[filename].timestamp = timestamp
    THEN [md5 |-> hc[filename].md5, sha512 |-> hc[filename].sha512,
          cache |-> hc, file |-> hf, reads |-> 0]
    ELSE LET h == calculate_hashes(data)
             rec == [size |-> size, timestamp |-> timestamp,
                     md5 |-> h.md5, sha512 |-> h.sha512]
             line == [size |-> size, timestamp |-> timestamp, md5 |-> h.md5,
                      sha512 |-> h.sha512, filename |-> filename]
         IN  [md5 |-> h.md5, sha512 |-> h.sha512,
              cache |-> [k \in (DOMAIN hc) \cup {filename} |->
                            IF k = filename THEN rec ELSE hc[k]],
              file |-> Append(hf, line), reads |-> 1]

\* os.scandir(pathname)
scandir(dk, dirname) == SelectSeq(dk, LAMBDA e : e.dir = dirname)

\* file = dir.files.get(name) or File(...); file.intree = True; then the
\* putkey calls in keys (a sequence of <<key, value>>)
FoundInTree(dm, dp, name, isdir, islink, keys) ==
    LET dm1 == GetOrAddFile(dm, dp, name, isdir, islink)
        fp == FilePos(dm1[dp], name)
    IN  [dm1 EXCEPT ![dp].files[fp].intree = TRUE,
                    ![dp].files[fp].submap = PutKeys(@, keys)]

RECURSIVE scan_directory(_, _, _, _)
RECURSIVE ScanEntries(_, _, _, _, _)

\* lines 926-984: one entry of the directory.  st holds dm (the dirmap), the
\* hasher's cache and cache file, scans (the directories that os.scandir has
\* been called on) and exc (the exception raised, "" if none).  For a symlink
\* whose destination does not exist, line 938 raises FileNotFoundError; for
\* one that leads back to itself it raises OSError (ELOOP)
ScanEntry(td, dk, dirname, ent, st) ==
    LET dp == DirPos(st.dm, dirname)
        dirname2 == OsPathJoin(dirname, ent.name)
        pathname == OsPathJoin(OsPathJoin(td, dirname), ent.name)
        linkname == IF ent.link # <<>> /\ ent.link[Len(ent.link)] = "/"
                    THEN SubSeq(ent.link, 1, Len(ent.link) - 1) ELSE ent.link
        date == IntToChars(ent.mtime)
    IN  IF StartsWith(ent.name, <<".">>) THEN st
        ELSE CASE ent.kind = "symbroken" ->
                    [st EXCEPT !.exc = "FileNotFoundError"]
               [] ent.kind = "symloop" ->
                    [st EXCEPT !.exc = "OSError"]
               [] ent.kind = "symfile" ->
                    [st EXCEPT !.dm = FoundInTree(st.dm, dp, ent.name, FALSE, TRUE,
                        << <<"linkpath", linkname>>,
                           <<"nlinkpath",
                             normpath(OsPathJoin(st.dm[dp].dir, linkname))>>,
                           <<"date", date>>,
                           <<"datestr", strftime(ent.mtime)>> >>)]
               [] ent.kind = "symdir" ->
                    [st EXCEPT !.dm = FoundInTree(st.dm, dp, ent.name, TRUE, TRUE,
                        << <<"linkdir",
                             normpath(OsPathJoin(dirname, linkname))>> >>)]
               [] ent.kind = "file" ->
                    IF ent.name = <<"I", "n", "d", "e", "x">> THEN st
                    ELSE LET h == get_hashes(st.hcache, st.hfile, pathname,
                                             ent.size, ent.mtime, ent.data)
                         IN  [st EXCEPT
                                !.dm = FoundInTree(st.dm, dp, ent.name, FALSE, FALSE,
                                    << <<"filesize", IntToChars(ent.size)>>,
                                       <<"date", date>>,
                                       <<"datestr", strftime(ent.mtime)>>,
                                       <<"md5", h.md5>>,
                                       <<"sha512", h.sha512>> >>),
                                !.hcache = h.cache,
                                !.hfile = h.file]
               [] ent.kind = "dir" ->
                    LET dm1 == get_directory(st.dm, dirname2, TRUE)
                        dm2 == FoundInTree(dm1, dp, ent.name, TRUE, FALSE,
                                           << <<"linkdir", dirname2>> >>)
                    IN  scan_directory(td, dk, dirname2, [st EXCEPT !.dm = dm2])
               [] OTHER -> st

\* lines 925-984: for ent in os.scandir(pathname)
ScanEntries(td, dk, dirname, ents, st) ==
    IF ents = <<>> \/ st.exc # "" THEN st
    ELSE ScanEntries(td, dk, dirname, Tail(ents),
                     ScanEntry(td, dk, dirname, Head(ents), st))

\* scan_directory(dirname) (lines 917-984)
scan_directory(td, dk, dirname, st) ==
    ScanEntries(td, dk, dirname, scandir(dk, dirname),
                [st EXCEPT !.dm = get_directory(@, dirname, TRUE),
                           !.scans = Append(@, dirname)])

\* parse_directory_tree(treedir, archtree)
parse_directory_tree(td, dk, st) == scan_directory(td, dk, ROOTNAME, st)

\* construct_archtree, lines 1011-1024: the loop over archtree.dirmap.values()
\* from its i-th Directory on
RECURSIVE LinkDirs(_, _, _)
LinkDirs(dm, i, err) ==
    IF i > Len(dm) THEN [dm |-> dm, err |-> err, exc |-> ""]
    ELSE IF dm[i].parentdirname = <<>> THEN LinkDirs(dm, i + 1, err)
    ELSE LET pp == DirPos(dm, dm[i].parentdirname)
         IN  IF pp = 0
             THEN LinkDirs(dm, i + 1, Append(err,
                    ErrLine("Directory's parent is not listed", <<>>, dm[i].dir)))
             ELSE LET dm1 == [dm EXCEPT ![i].parentdir = dm[i].parentdirname,
                                        ![pp].subdirs = Append(@, dm[i].dir)]
                      fp == FilePos(dm1[pp], dm[i].barename)
                  IN  IF fp = 0
                      THEN [dm |-> dm1, err |-> err, exc |-> "AttributeError"]
                      ELSE LET fm == dm1[pp].files[fp].submap
                           IN  IF HasKey(fm, "hasdesc") /\ fm["hasdesc"]
                               THEN LinkDirs(
                                      [dm1 EXCEPT ![i].submap =
                                          PutKey(PutKey(@, "hasparentdesc", TRUE),
                                                 "parentdesc", fm["desc"])],
                                      i + 1, err)
                               ELSE LinkDirs(dm1, i + 1, err)

-----------------------------------------------------------------------------
(* The disks and Master-Index files the model builds the tree from *)

N_games == <<"g", "a", "m", "e", "s">>
N_data == <<"d", "a", "t", "a">>
N_foo == <<"f", "o", "o", ".", "z", "i", "p">>
N_nofile == <<"n", "o", "f", "i", "l", "e">>
N_ln == <<"l", "n">>
N_dead == <<"d", "e", "a", "d">>
N_Index == <<"I", "n", "d", "e", "x">>
N_hidden == <<".", "h">>

DiskEntry(dirname, name, kind, size, mtime, link, data) ==
    [dir |-> dirname, name |-> name, kind |-> kind, size |-> size,
     mtime |-> mtime, link |-> link, data |-> data]

\* the --tree argument
TREEDIR == <<"t">>

\* if-archive/{Index, .h, games/foo.zip}
GamesTree ==
    << DiskEntry(ROOTNAME, N_Index, "file", 9, 1, <<>>, "index"),
       DiskEntry(ROOTNAME, N_hidden, "file", 1, 1, <<>>, "hidden"),
       DiskEntry(ROOTNAME, N_games, "dir", 0, 2, <<>>, ""),
       DiskEntry(PathJoin(ROOTNAME, N_games), N_foo, "file", 3, 5, <<>>, "zip") >>

\* if-archive/{foo.zip, data/, games -> data/, ln -> foo.zip}
LinkTree ==
    << DiskEntry(ROOTNAME, N_foo, "file", 3, 5, <<>>, "zip"),
       DiskEntry(ROOTNAME, N_data, "dir", 0, 2, <<>>, ""),
       DiskEntry(ROOTNAME, N_games, "symdir", 0, 2, N_data \o <<"/">>, ""),
       DiskEntry(ROOTNAME, N_ln, "symfile", 0, 5, N_foo, "") >>

\* if-archive/{dead -> gone}: a symlink whose destination does not exist
BrokenTree ==
    << DiskEntry(ROOTNAME, N_dead, "symbroken", 0, 0, <<"g", "o", "n", "e">>, "") >>

\* <<treedir, disk>>; treedir is <<>> when --tree is not given
Trees ==
    {<<<<>>, <<>>>>, <<TREEDIR, GamesTree>>, <<TREEDIR, LinkTree>>,
     <<TREEDIR, BrokenTree>>}

\* "# if-archive:" and "# if-archive/games:"
RootHeader == <<"#", " ">> \o ROOTNAME \o <<":">>
GamesHeader == <<"#", " ">> \o PathJoin(ROOTNAME, N_games) \o <<":">>

\* "## foo.zip", "## games/foo.zip", "## games/nofile"
PlainLine == <<"#", "#", " ">> \o N_foo
DeepLine == <<"#", "#", " ">> \o PathJoin(N_games, N_foo)
BadLine == <<"#", "#", " ">> \o PathJoin(N_games, N_nofile)

\* a line of description: the i-th letter, so that no two lines of a file
\* have the same text
TextLine(i) == <<LowerChars[i]>>

\* a line of metadata, "k: " and the i-th letter
MetaLine(i) == <<"k", ":", " ">> \o TextLine(i)

IndexKinds == {"dir", "plain", "deep", "bad", "text", "meta"}

IndexLine(kind, i) ==
    CASE kind = "dir" -> GamesHeader
      [] kind = "plain" -> PlainLine
      [] kind = "deep" -> DeepLine
      [] kind = "bad" -> BadLine
      [] kind = "text" -> TextLine(i)
      [] kind = "meta" -> MetaLine(i)

\* the Master-Index files: "# if-archive:" and up to MaxLines lines after it
IndexFiles ==
    {<<RootHeader>> \o [i \in 1..Len(shape) |-> IndexLine(shape[i], i)] :
        shape \in SeqsUpTo(IndexKinds, MaxLines)}

\* no --index argument
NoIndex == [given |-> FALSE, lines |-> <<>>]

IndexInputs == {NoIndex} \cup {[given |-> TRUE, lines |-> ls] : ls \in IndexFiles}

-----------------------------------------------------------------------------
(* check_missing_files(dirmap) and the no-index-entry list *)

\* NoIndexEntry.check(path): some line of the list is a prefix of the path
NoIndexCheck(ls, path) == \E i \in 1..Len(ls) : StartsWith(path, ls[i])

\* line 1036 without its test of file.intree
MissingCondAnyTree(f) ==
    /\ f.inmaster
    /\ ~HasKey(f.submap, "linkdir")
    /\ ~HasKey(f.submap, "islink")

\* line 1036: the Entry is in the Master-Index and was not found in the tree
MissingCond(f) ==
    /\ f.inmaster /\ ~f.intree
    /\ ~HasKey(f.submap, "linkdir")
    /\ ~HasKey(f.submap, "islink")

\* lines 1037-1040: 'Index entry without file: %s/%s\n'
MissingLine(d, f) ==
    ErrLine("Index entry without file",
            IF f.isdeep THEN <<"(">> \o f.name \o <<")">> ELSE f.name, d.dir)

\* lines 1041-1042: the Entry was found in the tree, is not in the Master-Index
\* and is not excused by the no-index-entry list
OrphanCond(ls, f) ==
    /\ f.intree /\ ~f.inmaster
    /\ ~HasKey(f.submap, "linkdir")
    /\ ~NoIndexCheck(ls, f.path)

\* line 1043: 'File without index entry: %s\n'
OrphanLine(f) == ErrLine("File without index entry", f.path, <<>>)

\* lines 1036-1043: what one File adds to stderr
CheckFile(ls, d, f, err) ==
    (IF MissingCond(f) THEN Append(err, MissingLine(d, f)) ELSE err)
        \o (IF OrphanCond(ls, f) THEN <<OrphanLine(f)>> ELSE <<>>)

\* line 1035: for file in dir.files.values(), from the j-th File on
RECURSIVE CheckFiles(_, _, _, _)
CheckFiles(ls, d, j, err) ==
    IF j > Len(d.files) THEN err
    ELSE CheckFiles(ls, d, j + 1, CheckFile(ls, d, d.files[j], err))

\* check_missing_files(dirmap), from the i-th Directory on: stderr after it
RECURSIVE check_missing_files(_, _, _, _)
check_missing_files(dm, ls, i, err) ==
    IF i > Len(dm) THEN err
    ELSE check_missing_files(dm, ls, i + 1, CheckFiles(ls, dm[i], 1, err))

\* the no-index-entry files of the model: an empty one, and one that lists
\* "if-archive/f" and "if-archive/games/"
NoIndexLists ==
    {<<>>, <<PathJoin(ROOTNAME, <<"f">>), PathJoin(ROOTNAME, N_games) \o <<"/">>>>}

-----------------------------------------------------------------------------
(* Sorting: list.sort(key=...) with keys that are tuples of strings and ints *)

\* the ASCII characters from space to ~, in the order of their codes (the
\* grave accent, code 96, is written "grave": it is in no name of the model)
AsciiChars ==
    <<" ", "!", "\"", "#", "$", "%", "&", "'", "(", ")", "*", "+", ",", "-", ".",
      "/", "0", "1", "2", "3", "4", "5", "6", "7", "8", "9", ":", ";", "<", "=",
      ">", "?", "@", "A", "B", "C", "D", "E", "F", "G", "H", "I", "J", "K", "L",
      "M", "N", "O", "P", "Q", "R", "S", "T", "U", "V", "W", "X", "Y", "Z", "[",
      "\\", "]", "^", "_", "grave", "a", "b", "c", "d", "e", "f", "g", "h", "i", "j",
      "k", "l", "m", "n", "o", "p", "q", "r", "s", "t", "u", "v", "w", "x", "y",
      "z", "{", "|", "}", "~">>

\* ord(c)
ord(c) == 31 + (CHOOSE i \in 1..Len(AsciiChars) : AsciiChars[i] = c)

\* a string as a key component: the codes of its characters
StrKey(s) == [i \in 1..Len(s) |-> ord(s[i])]

\* an int as a key component
IntKey(n) == <<n>>

\* a < b for two strings (or two ints) as key components
RECURSIVE CompLess(_, _)
CompLess(a, b) ==
    IF b = <<>> THEN FALSE
    ELSE IF a = <<>> THEN TRUE
    ELSE IF Head(a) = Head(b) THEN CompLess(Tail(a), Tail(b))
    ELSE Head(a) < Head(b)

\* a < b for two key tuples of the same shape
RECURSIVE KeyLess(_, _)
KeyLess(a, b) ==
    IF a = <<>> \/ b = <<>> THEN FALSE
    ELSE IF Head(a) = Head(b) THEN KeyLess(Tail(a), Tail(b))
    ELSE CompLess(Head(a), Head(b))

\* the sorted list with the item put after every item that is not greater
RECURSIVE InsertByKey(_, _)
InsertByKey(sorted, it) ==
    IF sorted = <<>> THEN <<it>>
    ELSE IF KeyLess(it.key, Head(sorted).key) THEN <<it>> \o sorted
    ELSE <<Head(sorted)>> \o InsertByKey(Tail(sorted), it)

\* list.sort(key=...) on items [key, val]: a stable sort, items with equal
\* keys stay in the order they had
RECURSIVE SortByKey(_)
SortByKey(items) ==
    IF items = <<>> THEN <<>>
    ELSE InsertByKey(SortByKey(SubSeq(items, 1, Len(items) - 1)),
                     items[Len(items)])

\* the sorted values
Vals(items) == [i \in 1..Len(items) |-> items[i].val]

\* ls.sort(key=lambda file:file.name.lower())
SortByName(ls) ==
    Vals(SortByKey([i \in 1..Len(ls) |->
            [key |-> <<StrKey(lower(ls[i].name))>>, val |-> ls[i]]]))

\* dirlist.sort(key=lambda dir:dir.dir.lower())
SortByDir(ls) ==
    Vals(SortByKey([i \in 1..Len(ls) |->
            [key |-> <<StrKey(lower(ls[i].dir))>>, val |-> ls[i]]]))

Names(ls) == [i \in 1..Len(ls) |-> ls[i].name]

-----------------------------------------------------------------------------
(* Directory.getitems and generate_output_xml *)

\* Directory.getitems(isdir, display=True): symlinks and deep references to
\* directories count as directories
getitems_display(d, isdir) ==
    LET Keep(file) == file.isdir = isdir
    IN  SelectSeq(d.files, Keep)

\* a getitems for the catalog that keeps the deep references
getitems_withdeep(d, isdir) ==
    LET Keep(file) == (file.isdir /\ ~file.islink) = isdir
    IN  SelectSeq(d.files, Keep)

\* Directory.getitems(isdir, display=False): symlinks are files, deep
\* references are left out
getitems(d, isdir) ==
    LET Keep(file) == ~file.isdeep /\ ((file.isdir /\ ~file.islink) = isdir)
    IN  SelectSeq(d.files, Keep)

\* lines 1260-1275: the catalog record of one Directory, from its sorted
\* file list and subdirectory list
XmlDirEnt(d, filelist, subdirlist) ==
    [dir |-> d.dir,
     count |-> Len(filelist),
     subdircount |-> Len(subdirlist),
     files |-> Names(filelist),
     subdirs |-> Names(subdirlist)]

\* generate_output_xml(dirmap): the _dirs of Master-Index.xml
generate_output_xml(dm) ==
    LET dirlist == SortByDir(dm)
    IN  [i \in 1..Len(dirlist) |->
            XmlDirEnt(dirlist[i],
                      SortByName(getitems(dirlist[i], FALSE)),
                      SortByName(getitems(dirlist[i], TRUE)))]

-----------------------------------------------------------------------------
(* generate_output_datelist and generate_output_indexes *)

\* int(s) for a string of digits
RECURSIVE CharsToInt(_)
CharsToInt(s) ==
    IF s = <<>> THEN 0
    ELSE 10 * CharsToInt(SubSeq(s, 1, Len(s) - 1))
            + (CHOOSE d \in 0..9 : DigitChars[d + 1] = s[Len(s)])

\* s.endswith(suffix)
EndsWith(s, suffix) ==
    /\ Len(s) >= Len(suffix)
    /\ SubSeq(s, Len(s) - Len(suffix) + 1, Len(s)) = suffix

\* curdate: the time of the run, in seconds
curdate == 40000000

\* for dir in dirmap.values(): for file in dir.files.values()
AllFiles(dm) == Flatten([i \in 1..Len(dm) |-> dm[i].files])

\* lines 1127-1131: the Files that have a date
DateFiles(dm) ==
    SelectSeq(AllFiles(dm),
              LAMBDA file : HasKey(file.submap, "date") /\ file.submap["date"] # <<>>)

\* line 1137: the key (-int(date), name.lower(), path.lower())
DateKey(file) ==
    <<IntKey(0 - CharsToInt(file.submap["date"])),
      StrKey(lower(file.name)), StrKey(lower(file.path))>>

\* line 1137: filelist.sort(key=...)
SortByDate(ls) ==
    Vals(SortByKey([i \in 1..Len(ls) |-> [key |-> DateKey(ls[i]), val |-> ls[i]]]))

\* lines 1115-1121: (intlen, intname) of the five pages
intervals ==
    << [len |-> 0, name |-> "all"],
       [len |-> 7 * 24 * 60 * 60, name |-> "week"],
       [len |-> 31 * 24 * 60 * 60, name |-> "month"],
       [len |-> 93 * 24 * 60 * 60, name |-> "three months"],
       [len |-> 366 * 24 * 60 * 60, name |-> "year"] >>

\* lines 1147-1152, but stopping at a file that is exactly as old as the
\* interval too
RECURSIVE TakeRecentStrict(_, _)
TakeRecentStrict(filelist, intlen) ==
    IF filelist = <<>> THEN <<>>
    ELSE IF intlen # 0
            /\ CharsToInt(Head(filelist).submap["date"]) + intlen <= curdate
    THEN <<>>
    ELSE <<Head(filelist)>> \o TakeRecentStrict(Tail(filelist), intlen)

\* lines 1147-1152: the files of the list up to the first one that is older
\* than the interval
RECURSIVE TakeRecent(_, _)
TakeRecent(filelist, intlen) ==
    IF filelist = <<>> THEN <<>>
    ELSE IF intlen # 0
            /\ CharsToInt(Head(filelist).submap["date"]) + intlen < curdate
    THEN <<>>
    ELSE <<Head(filelist)>> \o TakeRecent(Tail(filelist), intlen)

Paths(ls) == [i \in 1..Len(ls) |-> ls[i].path]

\* lines 1139-1168: the _files of the five pages, from the sorted list
DatePages(filelist) ==
    [k \in 1..Len(intervals) |->
        [interval |-> intervals[k].name,
         files |-> Paths(TakeRecent(filelist, intervals[k].len))]]

\* generate_output_datelist(dirmap, jenv): what date.html and date_1.html to
\* date_4.html list
generate_output_datelist(dm) == DatePages(SortByDate(DateFiles(dm)))

\* the metadata keys 'unbox-link' and 'unbox-block'
K_unbox_link == <<"u", "n", "b", "o", "x", "-", "l", "i", "n", "k">>
K_unbox_block == <<"u", "n", "b", "o", "x", "-", "b", "l", "o", "c", "k">>

C_true == <<"t", "r", "u", "e">>
C_false == <<"f", "a", "l", "s", "e">>

\* File.getmetadata_string(key): the first value of the key; <<>> stands for
\* None (and for an empty first value: both are false and neither is 'true')
getmetadata_string(file, key) ==
    IF MetaGet(file.metadata, key) = <<>> THEN <<>>
    ELSE MetaGet(file.metadata, key)[1]

\* unbox_suffix_pattern.search(name): \.(tar\.gz|tgz|tar\.z|zip)$, ignoring
\* case; $ is the end of the name, or the place before a newline that ends it
unbox_suffix_pattern(name) ==
    \E suffix \in { <<".", "t", "a", "r", ".", "g", "z">>, <<".", "t", "g", "z">>,
                    <<".", "t", "a", "r", ".", "z">>, <<".", "z", "i", "p">> } :
        \/ EndsWith(lower(name), suffix)
        \/ EndsWith(lower(name), suffix \o <<"\n">>)

\* lines 1205-1211 with the no-unbox-link list looked at before unbox-link
UnboxFlagListFirst(file, dirname, nounboxset) ==
    IF dirname \in nounboxset THEN FALSE
    ELSE IF getmetadata_string(file, K_unbox_link) # <<>>
    THEN lower(getmetadata_string(file, K_unbox_link)) = C_true
    ELSE unbox_suffix_pattern(file.name)

\* lines 1205-1211: the flag from unbox-link, the no-unbox-link list and the
\* suffix of the name
UnboxFlag(file, dirname, nounboxset) ==
    IF getmetadata_string(file, K_unbox_link) # <<>>
    THEN lower(getmetadata_string(file, K_unbox_link)) = C_true
    ELSE IF dirname \in nounboxset THEN FALSE
    ELSE unbox_suffix_pattern(file.name)

\* line 1216: file.getmetadata_string('unbox-block') == 'true'
UnboxBlocked(file) == getmetadata_string(file, K_unbox_block) = C_true

\* lines 1198-1223: the bindings of one file.  With unbox-block "true", line
\* 1217 reads the name `false`, which is not defined: NameError
FileBindings(file, dirname, nounboxset) ==
    IF UnboxBlocked(file) THEN [exc |-> "NameError", name |-> file.name, itermap |-> NoKeys]
    ELSE [exc |-> "",
          name |-> file.name,
          itermap |->
            PutKeys(NoKeys,
                (IF UnboxFlag(file, dirname, nounboxset)
                 THEN << <<"hasunboxlink", TRUE>> >> ELSE <<>>)
                \o (IF file.metadata # <<>>
                    THEN << <<"_metadata", file.metadata>> >> ELSE <<>>))]

\* prepare_filelist(fls): res, and the exception that ended the loop
RECURSIVE prepare_filelist(_, _, _, _)
prepare_filelist(fls, dirname, nounboxset, res) ==
    IF fls = <<>> THEN [exc |-> "", res |-> res]
    ELSE IF FileBindings(Head(fls), dirname, nounboxset).exc # ""
    THEN [exc |-> FileBindings(Head(fls), dirname, nounboxset).exc, res |-> res]
    ELSE prepare_filelist(Tail(fls), dirname, nounboxset,
            Append(res, FileBindings(Head(fls), dirname, nounboxset)))

\* a deepsplit that leaves the deep references in the first list as well
deepsplit_keeping(ls) ==
    [undeep |-> ls,
     deep |-> SelectSeq(ls, LAMBDA val : val.isdeep)]

\* deepsplit(ls): the Files that are not deep references, and those that are
deepsplit(ls) ==
    [undeep |-> SelectSeq(ls, LAMBDA val : ~val.isdeep),
     deep |-> SelectSeq(ls, LAMBDA val : val.isdeep)]

\* lines 1226-1247: the bindings of the page of one Directory, from the
\* results of prepare_filelist and the two subdirectory lists
PageOf(d, files, alsofiles, subdirs, alsosubdirs) ==
    [exc |-> IF files.exc # "" THEN files.exc ELSE alsofiles.exc,
     dir |-> d.dir,
     count |-> Len(files.res), alsocount |-> Len(alsofiles.res),
     subdircount |-> Len(subdirs), alsosubdircount |-> Len(alsosubdirs),
     files |-> files.res, alsofiles |-> alsofiles.res,
     subdirs |-> Names(subdirs), alsosubdirs |-> Names(alsosubdirs)]

\* lines 1181-1188 and 1231-1232, from the two sorted lists of getitems
PageFrom(d, filelist, subdirlist, nounboxset) ==
    PageOf(d,
           prepare_filelist(deepsplit(filelist).undeep, d.dir, nounboxset, <<>>),
           prepare_filelist(deepsplit(filelist).deep, d.dir, nounboxset, <<>>),
           deepsplit(subdirlist).undeep,
           deepsplit(subdirlist).deep)

\* lines 1176-1247: the index page of one Directory
IndexPage(d, nounboxset) ==
    PageFrom(d, SortByName(getitems_display(d, FALSE)),
             SortByName(getitems_display(d, TRUE)), nounboxset)

\* generate_output_indexes(dirmap), from the i-th Directory on: the pages
\* written, and the exception that ended the loop
RECURSIVE generate_output_indexes(_, _, _, _)
generate_output_indexes(dm, i, nounboxset, written) ==
    IF i > Len(dm) THEN [exc |-> "", pages |-> written]
    ELSE IF IndexPage(dm[i], nounboxset).exc # ""
    THEN [exc |-> IndexPage(dm[i], nounboxset).exc, pages |-> written]
    ELSE generate_output_indexes(dm, i + 1, nounboxset,
            Append(written, IndexPage(dm[i], nounboxset)))

-----------------------------------------------------------------------------
(* construct_archtree as one function, and the trees the pages are made of *)

\* lines 998-1000: the tree with its root Directory, an empty checksum cache
ScanStart ==
    [dm |-> get_directory(<<>>, ROOTNAME, TRUE), hcache |-> [f \in {} |-> <<>>],
     hfile |-> <<>>, exc |-> "", err |-> <<>>, scans |-> <<>>]

\* lines 1002-1003
ScanStep(td, dk) ==
    IF td # <<>> THEN parse_directory_tree(td, dk, ScanStart) ELSE ScanStart

\* lines 1005-1006
ParseStep(ix, st) ==
    IF st.exc # "" \/ ~ix.given THEN st
    ELSE LET r == parse_master_index(ix.lines, st.dm, st.err)
         IN  [st EXCEPT !.dm = r.dm, !.err = r.err]

\* lines 1011-1024
LinkStep(st) ==
    IF st.exc # "" THEN st
    ELSE LET r == LinkDirs(st.dm, 1, st.err)
         IN  [st EXCEPT !.dm = r.dm, !.err = r.err, !.exc = r.exc]

\* construct_archtree(indexpath, treedir): the dirmap, stderr, the checksum
\* cache and the exception raised
construct_archtree(ix, td, dk) == LinkStep(ParseStep(ix, ScanStep(td, dk)))

\* most files of a tree of the date family, next to its subdirectory
MaxFiles == 3

N_a == <<"a">>
N_upper_a == <<"A">>
N_b == <<"b">>

\* files named a, A and b in if-archive and if-archive/games, changed 5 s or
\* 39900000 s after the epoch
DatePool ==
    {DiskEntry(d, n, "file", 1, t, <<>>, "x") :
        d \in {ROOTNAME, PathJoin(ROOTNAME, N_games)},
        n \in {N_a, N_upper_a, N_b},
        t \in {5, 39900000}}

\* trees of the date family: if-archive/games/ and up to MaxFiles files with
\* different paths, in every order os.scandir can give them
DateDisks ==
    {<<DiskEntry(ROOTNAME, N_games, "dir", 0, 2, <<>>, "")>> \o q :
        q \in {s \in SeqsUpTo(DatePool, MaxFiles) :
                \A i, j \in 1..Len(s) :
                    (s[i].dir = s[j].dir /\ s[i].name = s[j].name) => i = j}}

\* "unbox-link: " or "unbox-block: " and the value
UnboxLine(key, val) == key \o <<":", " ">> \o val

\* the metadata lines of a file: none, or a line for the key with one of
\* these values
UnboxLines(key, vals) == {<<>>} \cup {<<UnboxLine(key, v)>> : v \in vals}

\* Master-Index files of the unbox family: "# if-archive:", "## foo.zip" or
\* "## data" with or without unbox-link and unbox-block lines, "## nofile"
UnboxIndexes ==
    {<<RootHeader, <<"#", "#", " ">> \o n>> \o l \o b
            \o <<<<"#", "#", " ">> \o N_nofile>> :
        n \in {N_foo, N_data},
        l \in UnboxLines(K_unbox_link, {C_true, <<"T", "r", "u", "e">>, C_false}),
        b \in UnboxLines(K_unbox_block, {C_true, C_false})}

\* what the pages are made of: a tree and no Master-Index, or a Master-Index
\* and no tree, and the no-unbox-link list
PageInputs ==
    {[treedir |-> TREEDIR, disk |-> d, index |-> NoIndex, nounbox |-> {}] :
        d \in DateDisks}
    \cup
    {[treedir |-> <<>>, disk |-> <<>>, index |-> [given |-> TRUE, lines |-> ls],
      nounbox |-> ns] :
        ls \in UnboxIndexes, ns \in {{}, {ROOTNAME}}}

-----------------------------------------------------------------------------
(* Variables of the part that is not running *)

\* the archive variables while only the Template engine runs
ANone ==
    /\ treedir = <<>>
    /\ disk = <<>>
    /\ index = NoIndex
    /\ dirmap = <<>>
    /\ stderr = <<>>
    /\ hcache = [f \in {} |-> <<>>]
    /\ hfile = <<>>
    /\ aexc = ""
    /\ apc = "idle"
    /\ noindex = <<>>
    /\ xml = <<>>

\* the variables of the page generators while they do not run
GNone ==
    /\ nounbox = {}
    /\ datelist = <<>>
    /\ pages = <<>>

\* hlast before the first get_hashes call
NoCall ==
    [filename |-> "", size |-> 0, timestamp |-> 0, md5 |-> <<>>, sha512 |-> <<>>]

\* the variables of the calls made on a FileHasher alone, while none is made
HNone ==
    /\ hdisk = <<>>
    /\ hreads = 0
    /\ hlast = NoCall
    /\ hn = 0

\* wjob while no SafeWriter is open
NoJob == [tempname |-> "", finalname |-> "", fl |-> "", data |-> <<>>, pos |-> 0]

\* the variables of a SafeWriter while none is used
WNone ==
    /\ wfs = <<>>
    /\ wjob = NoJob
    /\ wstate = "idle"
    /\ wpre = <<>>
    /\ wres = <<>>

\* ment while the caller holds no entry
NoEnt == [dir |-> 0, file |-> 0]

\* mret before the first call
NoRet ==
    [op |-> "", exc |-> "", found |-> FALSE, olddir |-> FALSE,
     dryrun |-> FALSE, written |-> {}, before |-> <<>>]

\* the variables of an IndexMod while none is used
MNone ==
    /\ mfs = <<>>
    /\ mdirs = <<>>
    /\ ment = NoEnt
    /\ mret = NoRet
    /\ mhist = [changed |-> {}, called |-> {}]
    /\ mn = 0

\* the Template variables while only the archive tree is built
TNone ==
    /\ pieces = <<>>
    /\ tmap = EmptyDict
    /\ cache = [b \in {} |-> <<>>]
    /\ out = ""
    /\ diag = <<>>
    /\ exc = ""
    /\ tpc = "idle"

-----------------------------------------------------------------------------
(* Template.substitute(body, map, outfl) *)

\* the template's body text
body == Flatten(pieces)

TInit ==
    /\ \E inp \in TemplateInputs : pieces = inp[1] /\ tmap = inp[2]
    /\ cache = [b \in {} |-> <<>>]
    /\ out = ""
    /\ diag = <<>>
    /\ exc = ""
    /\ tpc = "start"
    /\ ANone
    /\ GNone
    /\ HNone
    /\ WNone
    /\ MNone

\* lines 102-105: the body is not in Template.cache; compile it and keep it
TemplateCompile ==
    /\ tpc = "start"
    /\ body \notin DOMAIN cache
    /\ LET r == TemplateInit(body)
       IN  IF r.exc # ""
           THEN /\ exc' = r.exc
                /\ tpc' = "raised"
                /\ UNCHANGED <<cache, diag>>
           ELSE /\ cache' = [b \in (DOMAIN cache) \cup {body} |->
                                IF b = body THEN r.ls ELSE cache[b]]
                /\ diag' = diag \o r.diag
                /\ tpc' = "compiled"
                /\ exc' = exc
    /\ UNCHANGED <<pieces, tmap, out>>
    /\ UNCHANGED nontemplate

\* line 106: template.subst(map, outfl)
TemplateSubst ==
    /\ tpc = "compiled"
    /\ LET r == Subst(cache[body], <<tmap>>, diag)
       IN  /\ out' = r.out
           /\ diag' = r.diag
           /\ exc' = r.exc
           /\ tpc' = IF r.exc = "" THEN "done" ELSE "raised"
           /\ tmap' = r.map[Len(r.map)]
    /\ UNCHANGED <<pieces, cache>>
    /\ UNCHANGED nontemplate

TNext == TemplateCompile \/ TemplateSubst

SpecTemplate == TInit /\ [][TNext]_vars

-----------------------------------------------------------------------------
(* construct_archtree(indexpath, treedir) *)

AInit ==
    /\ \E t \in Trees : treedir = t[1] /\ disk = t[2]
    /\ index = NoIndex
    /\ dirmap = <<>>
    /\ stderr = <<>>
    /\ hcache = [f \in {} |-> <<>>]
    /\ hfile = <<>>
    /\ aexc = ""
    /\ apc = "start"
    /\ noindex = <<>>
    /\ xml = <<>>
    /\ TNone
    /\ HNone
    /\ WNone
    /\ MNone
    /\ GNone

\* lines 998-1003: the root Directory, and the scan of the tree if there is one
ConstructScan ==
    /\ apc = "start"
    /\ LET st0 == [dm |-> get_directory(dirmap, ROOTNAME, TRUE),
                   hcache |-> hcache, hfile |-> hfile, exc |-> "",
                   scans |-> <<>>]
           st == IF treedir # <<>>
                 THEN parse_directory_tree(treedir, disk, st0) ELSE st0
       IN  /\ dirmap' = st.dm
           /\ hcache' = st.hcache
           /\ hfile' = st.hfile
           /\ aexc' = st.exc
           /\ apc' = IF st.exc = "" THEN "scanned" ELSE "raised"
    /\ UNCHANGED <<treedir, disk, index, stderr, noindex, xml>>
    /\ UNCHANGED nontree

\* lines 1005-1006: the Master-Index file, if there is one
ConstructParse ==
    /\ apc = "scanned"
    /\ \E ix \in IndexInputs :
        /\ index' = ix
        /\ IF ix.given
           THEN LET r == parse_master_index(ix.lines, dirmap, stderr)
                IN  dirmap' = r.dm /\ stderr' = r.err
           ELSE UNCHANGED <<dirmap, stderr>>
    /\ apc' = "parsed"
    /\ UNCHANGED <<treedir, disk, hcache, hfile, aexc, noindex, xml>>
    /\ UNCHANGED nontree

\* lines 1011-1024: parents and subdirectory lists
ConstructLink ==
    /\ apc = "parsed"
    /\ LET r == LinkDirs(dirmap, 1, stderr)
       IN  /\ dirmap' = r.dm
           /\ stderr' = r.err
           /\ aexc' = r.exc
           /\ apc' = IF r.exc = "" THEN "built" ELSE "raised"
    /\ UNCHANGED <<treedir, disk, index, hcache, hfile, noindex, xml>>
    /\ UNCHANGED nontree

\* line 1465: check_missing_files(archtree.dirmap).  The no-index-entry file
\* was read at line 1423 and is used here only
CheckMissing ==
    /\ apc = "built"
    /\ \E ls \in NoIndexLists :
        /\ noindex' = ls
        /\ stderr' = check_missing_files(dirmap, ls, 1, stderr)
    /\ apc' = "checked"
    /\ UNCHANGED <<treedir, disk, index, dirmap, hcache, hfile, aexc, xml>>
    /\ UNCHANGED nontree

\* line 1303: generate_output_xml(dirmap, jenv).  The date pages and the index
\* pages that generate_output writes before it read the tree and do not
\* change it; they are the steps of SpecPages
GenerateXml ==
    /\ apc = "checked"
    /\ xml' = generate_output_xml(dirmap)
    /\ apc' = "catalogued"
    /\ UNCHANGED <<treedir, disk, index, dirmap, stderr, hcache, hfile, aexc, noindex>>
    /\ UNCHANGED nontree

ANext ==
    \/ ConstructScan
    \/ ConstructParse
    \/ ConstructLink
    \/ CheckMissing
    \/ GenerateXml

SpecTree == AInit /\ [][ANext]_vars

-----------------------------------------------------------------------------
(* generate_output(dirmap, jenv): the date pages and the index pages *)

\* the build after construct_archtree and check_missing_files (with an empty
\* no-index-entry list), for a tree or a Master-Index of the page families
PInit ==
    /\ \E inp \in PageInputs :
        LET st == construct_archtree(inp.index, inp.treedir, inp.disk)
        IN  /\ st.exc = ""
            /\ treedir = inp.treedir
            /\ disk = inp.disk
            /\ index = inp.index
            /\ nounbox = inp.nounbox
            /\ dirmap = st.dm
            /\ hcache = st.hcache
            /\ hfile = st.hfile
            /\ stderr = check_missing_files(st.dm, <<>>, 1, st.err)
    /\ aexc = ""
    /\ apc = "checked"
    /\ noindex = <<>>
    /\ xml = <<>>
    /\ datelist = <<>>
    /\ pages = <<>>
    /\ TNone
    /\ HNone
    /\ WNone
    /\ MNone

\* line 1301: generate_output_datelist(dirmap, jenv)
GenerateDatelist ==
    /\ apc = "checked"
    /\ datelist' = generate_output_datelist(dirmap)
    /\ apc' = "dated"
    /\ UNCHANGED <<treedir, disk, index, dirmap, stderr, hcache, hfile, aexc,
                   noindex, xml, nounbox, pages>>
    /\ UNCHANGED nonpages

\* line 1302: generate_output_indexes(dirmap)
GenerateIndexes ==
    /\ apc = "dated"
    /\ LET r == generate_output_indexes(dirmap, 1, nounbox, <<>>)
       IN  /\ pages' = r.pages
           /\ aexc' = r.exc
           /\ apc' = IF r.exc = "" THEN "indexed" ELSE "raised"
    /\ UNCHANGED <<treedir, disk, index, dirmap, stderr, hcache, hfile,
                   noindex, xml, nounbox, datelist>>
    /\ UNCHANGED nonpages

PNext == GenerateDatelist \/ GenerateIndexes

SpecPages == PInit /\ [][PNext]_vars

-----------------------------------------------------------------------------
(* FileHasher: the cache file is read once, then get_hashes is called *)

\* how many get_hashes calls are followed
MaxCalls == 3

HashNames == {"p", "q"}
HashSizes == {1, 2}
HashTimes == {5, 6}
HashData == {"x", "y"}

\* a line of the cache file: size, mtime, md5, sha512, filename
HashLine(filename, size, timestamp, data) ==
    [size |-> size, timestamp |-> timestamp,
     md5 |-> calculate_hashes(data).md5,
     sha512 |-> calculate_hashes(data).sha512, filename |-> filename]

\* the cache files a run can start with: none or an empty one, one line, and
\* two lines for one file (the file was updated between two earlier runs)
HashFiles ==
    {<<>>,
     <<HashLine("p", 1, 5, "x")>>,
     <<HashLine("p", 1, 5, "x"), HashLine("p", 2, 6, "y")>>}

\* FileHasher.__init__: every line of the cache file is put in self.cache in
\* turn, so the latest line of a filename is the one that counts
RECURSIVE LoadCache(_, _, _)
LoadCache(hf, i, hc) ==
    IF i > Len(hf) THEN hc
    ELSE LoadCache(hf, i + 1,
            [k \in (DOMAIN hc) \cup {hf[i].filename} |->
                IF k = hf[i].filename
                THEN [size |-> hf[i].size, timestamp |-> hf[i].timestamp,
                      md5 |-> hf[i].md5, sha512 |-> hf[i].sha512]
                ELSE hc[k]])

HInit ==
    /\ hfile \in HashFiles
    /\ hcache = LoadCache(hfile, 1, [f \in {} |-> <<>>])
    /\ hdisk \in [HashNames -> HashData]
    /\ hreads = 0
    /\ hlast = NoCall
    /\ hn = 0
    /\ treedir = <<>>
    /\ disk = <<>>
    /\ index = NoIndex
    /\ dirmap = <<>>
    /\ stderr = <<>>
    /\ aexc = ""
    /\ apc = "idle"
    /\ noindex = <<>>
    /\ xml = <<>>
    /\ GNone
    /\ TNone
    /\ WNone
    /\ MNone

\* hasher.get_hashes(filename, size, timestamp)
HashCall ==
    /\ hn < MaxCalls
    /\ \E filename \in HashNames, size \in HashSizes, timestamp \in HashTimes :
        LET h == get_hashes(hcache, hfile, filename, size, timestamp,
                            hdisk[filename])
        IN  /\ hcache' = h.cache
            /\ hfile' = h.file
            /\ hreads' = hreads + h.reads
            /\ hlast' = [filename |-> filename, size |-> size,
                         timestamp |-> timestamp,
                         md5 |-> h.md5, sha512 |-> h.sha512]
    /\ hn' = hn + 1
    /\ UNCHANGED hdisk
    /\ UNCHANGED <<treedir, disk, index, dirmap, stderr, aexc, apc, noindex, xml>>
    /\ UNCHANGED nonhasher

\* somebody else rewrites a file of the archive between two calls
HashModify ==
    /\ \E filename \in HashNames, data \in HashData :
        /\ data # hdisk[filename]
        /\ hdisk' = [hdisk EXCEPT ![filename] = data]
    /\ UNCHANGED <<hreads, hlast, hn>>
    /\ UNCHANGED avars
    /\ UNCHANGED nonhasher

HNext == HashCall \/ HashModify

SpecHasher == HInit /\ [][HNext]_vars

-----------------------------------------------------------------------------
(* SafeWriter: the generators write their outputs one after the other *)

\* how many pieces a template dumps into the stream
MaxChunks == 2

\* os.path.join(DESTDIR, '__temp')
TempName == "__temp"

\* the outputs of a run: each is written once
FinalNames == {"index.html", "dirs.xml"}

WPaths == {TempName} \cup FinalNames

Missing == [exists |-> FALSE, data |-> <<>>]

FileOf(data) == [exists |-> TRUE, data |-> data]

WChunks == {"a", "b"}

\* what a template can dump, piece by piece
WData == UNION {[1..n -> WChunks] : n \in 0..MaxChunks}

\* a writer that opens the final path itself
WriterTargetFinal(tempname, finalname) == finalname

\* line 450: the path SafeWriter opens for writing
WriterTarget(tempname, finalname) == tempname

\* os.replace(src, dst) on the files fs; FileNotFoundError when src is missing
os_replace(fs, src, dst) ==
    IF ~fs[src].exists THEN [fs |-> fs, exc |-> "FileNotFoundError"]
    ELSE [fs |-> [p \in DOMAIN fs |->
                    IF p = dst THEN fs[src]
                    ELSE IF p = src THEN Missing ELSE fs[p]],
          exc |-> ""]

\* before the run every output is missing or holds what an earlier run wrote;
\* an earlier run that was interrupted may have left its temporary file
WInit ==
    /\ wfs \in [WPaths -> {Missing, FileOf(<<"old">>)}]
    /\ wjob = NoJob
    /\ wstate = "idle"
    /\ wpre = wfs
    /\ wres = [f \in FinalNames |-> Missing]
    /\ ANone
    /\ GNone
    /\ TNone
    /\ HNone
    /\ MNone

\* writer = SafeWriter(tempname, filename): open(..., 'w') creates the file
\* or empties it
WOpen ==
    /\ wstate = "idle"
    /\ \E finalname \in FinalNames, data \in WData :
        /\ ~wres[finalname].exists
        /\ LET fl == WriterTarget(TempName, finalname)
           IN  /\ wjob' = [tempname |-> TempName, finalname |-> finalname,
                           fl |-> fl, data |-> data, pos |-> 0]
               /\ wfs' = [wfs EXCEPT ![fl] = FileOf(<<>>)]
    /\ wstate' = "open"
    /\ UNCHANGED <<wpre, wres>>
    /\ UNCHANGED nonwriter

\* template.stream(...).dump(writer.stream()): the next piece reaches the file
WWrite ==
    /\ wstate = "open"
    /\ wjob.pos < Len(wjob.data)
    /\ wfs' = [wfs EXCEPT ![wjob.fl].data = Append(@, wjob.data[wjob.pos + 1])]
    /\ wjob' = [wjob EXCEPT !.pos = @ + 1]
    /\ UNCHANGED <<wstate, wpre, wres>>
    /\ UNCHANGED nonwriter

\* writer.resolve(): close the stream, then os.replace(tempname, finalname)
WResolve ==
    /\ wstate = "open"
    /\ wjob.pos = Len(wjob.data)
    /\ LET r == os_replace(wfs, wjob.tempname, wjob.finalname)
       IN  /\ wfs' = r.fs
           /\ wstate' = IF r.exc = "" THEN "idle" ELSE "dead"
           /\ wres' = IF r.exc = ""
                      THEN [wres EXCEPT ![wjob.finalname] = FileOf(wjob.data)]
                      ELSE wres
    /\ UNCHANGED <<wjob, wpre>>
    /\ UNCHANGED nonwriter

\* the run is interrupted after the temporary file was opened and before the
\* rename: an exception in the dump, a signal
WInterrupt ==
    /\ wstate = "open"
    /\ wstate' = "dead"
    /\ UNCHANGED <<wfs, wjob, wpre, wres>>
    /\ UNCHANGED nonwriter

WNext == WOpen \/ WWrite \/ WResolve \/ WInterrupt

SpecWriter == WInit /\ [][WNext]_vars

-----------------------------------------------------------------------------
(* ifarchiveindexmod: IndexMod, IndexDir, IndexFile *)

\* how many calls on an IndexMod are followed
MaxOps == 4

\* the directories of the archive that have an Index file
D_ab == ROOTNAME \o <<"/", "a", "/", "b">>
D_aXb == ROOTNAME \o <<"/", "a", "X", "b">>

IndexDirs == {D_ab, D_aXb}

\* a directory without Index file
D_zz == ROOTNAME \o <<"/", "z", "z">>

F_f == <<"f">>
F_g == <<"g">>

\* the pathnames the caller asks for: present and absent entries, with a
\* leading slash, without the if-archive/ prefix, in a directory that has no
\* Index, and a pathname without file name
Pathnames ==
    {D_ab \o <<"/">> \o F_f,
     <<"/">> \o D_ab \o <<"/">> \o F_g,
     <<"a", "X", "b", "/">> \o F_g,
     D_aXb \o <<"/">> \o F_f,
     D_zz \o <<"/">> \o F_f,
     <<"a", "/", "b", "/">>}

\* what an Index file holds: the lines of the directory's description, then
\* the entries, each with its metadata (key and values, in order) and the
\* lines of its description
IndexText(description, files) ==
    [exists |-> TRUE, description |-> description, files |-> files]

NoFile == [exists |-> FALSE, description |-> <<>>, files |-> <<>>]

\* IndexFile.__init__(filename, dir)
IndexFile(filename) ==
    [filename |-> filename, description |-> <<>>, metadata |-> <<>>,
     dirty |-> FALSE]

\* the position of key in an OrderedDict kept as a sequence, 0 when absent
KeyPos(metadata, key) ==
    IF \E i \in DOMAIN metadata : metadata[i].key = key
    THEN CHOOSE i \in DOMAIN metadata : metadata[i].key = key
    ELSE 0

\* IndexFile.add_metadata(key, val, dirty=True)
add_metadata(file, key, val, dirty) ==
    LET i == KeyPos(file.metadata, key)
        md == IF i = 0
              THEN Append(file.metadata, [key |-> key, ls |-> <<val>>])
              ELSE [file.metadata EXCEPT ![i].ls = Append(@, val)]
    IN  [file EXCEPT !.metadata = md,
                     !.dirty = IF dirty THEN TRUE ELSE @]

\* IndexDir.__init__(dirname, rootdir): the entries of the Index file, none of
\* them dirty (the headers of the Index files followed here are distinct)
IndexDir(dirname, text) ==
    [dirname |-> dirname,
     description |-> text.description,
     files |-> [i \in DOMAIN text.files |->
                    [filename |-> text.files[i].filename,
                     description |-> text.files[i].description,
                     metadata |-> text.files[i].metadata,
                     dirty |-> FALSE]]]

\* IndexDir.isdirty()
isdirty(dir) == \E i \in DOMAIN dir.files : dir.files[i].dirty

\* IndexDir.hasfile(filename)
dir_hasfile(dir, filename) ==
    \E i \in DOMAIN dir.files : dir.files[i].filename = filename

EntryPos(dir, filename) ==
    CHOOSE i \in DOMAIN dir.files : dir.files[i].filename = filename

\* an IndexDir whose getfile marks the entry it returns
dir_getfile_marking(dir, filename) ==
    IF dir_hasfile(dir, filename)
    THEN [dir |-> [dir EXCEPT !.files[EntryPos(dir, filename)].dirty = TRUE],
          pos |-> EntryPos(dir, filename)]
    ELSE [dir |-> [dir EXCEPT !.files = Append(@,
                    [IndexFile(filename) EXCEPT !.description = <<"\n">>,
                                                !.dirty = TRUE])],
          pos |-> Len(dir.files) + 1]

\* IndexDir.getfile(filename): the directory afterwards, and where the entry is
dir_getfile(dir, filename) ==
    IF dir_hasfile(dir, filename)
    THEN [dir |-> dir, pos |-> EntryPos(dir, filename)]
    ELSE [dir |-> [dir EXCEPT !.files = Append(@,
                    [IndexFile(filename) EXCEPT !.description = <<"\n">>,
                                                !.dirty = TRUE])],
          pos |-> Len(dir.files) + 1]

\* lines 184-186, 201-203: a description is written with a blank line at its end
WithBlank(description) ==
    IF description = <<>> \/ description[Len(description)] # "\n"
    THEN Append(description, "\n")
    ELSE description

\* lines 179-208: what IndexDir.rewrite writes to Index-new
NewText(dir) ==
    IndexText(WithBlank(dir.description),
              [i \in DOMAIN dir.files |->
                    [filename |-> dir.files[i].filename,
                     metadata |-> dir.files[i].metadata,
                     description |-> WithBlank(dir.files[i].description)]])

\* line 214: self.dirname.replace('/', 'X') + 'XIndex'
BackupName(dirname) ==
    [i \in 1..Len(dirname) |-> IF dirname[i] = "/" THEN "X" ELSE dirname[i]]
        \o <<"X">> \o N_Index

BackupNames == {BackupName(d) : d \in IndexDirs}

\* IndexDir.rewrite(olddir, dryrun): the directory and the files afterwards
dir_rewrite(dir, fs, olddir, dryrun) ==
    LET d == dir.dirname
        fs1 == [fs EXCEPT !.new[d] = NewText(dir)]
        fs2 == IF olddir
               THEN [fs1 EXCEPT !.old[BackupName(d)] = fs1.index[d],
                                !.index[d] = NoFile]
               ELSE fs1
        fs3 == [fs2 EXCEPT !.index[d] = fs2.new[d], !.new[d] = NoFile]
    IN  IF dryrun THEN [dir |-> dir, fs |-> fs1]
        ELSE [dir |-> [dir EXCEPT !.files =
                        [i \in DOMAIN dir.files |->
                            [dir.files[i] EXCEPT !.dirty = FALSE]]],
              fs |-> fs3]

\* IndexMod.rewrite(olddir, dryrun) from the i-th directory of self.dirs on
RECURSIVE rewrite(_, _, _, _, _, _)
rewrite(dirs, fs, olddir, dryrun, i, written) ==
    IF i > Len(dirs) THEN [dirs |-> dirs, fs |-> fs, written |-> written]
    ELSE IF isdirty(dirs[i])
    THEN LET r == dir_rewrite(dirs[i], fs, olddir, dryrun)
         IN  rewrite([dirs EXCEPT ![i] = r.dir], r.fs, olddir, dryrun, i + 1,
                     written \cup {dirs[i].dirname})
    ELSE rewrite(dirs, fs, olddir, dryrun, i + 1, written)

\* IndexMod.split(pathname)
split(pathname) ==
    LET p1 == IF StartsWith(pathname, <<"/">>) THEN Drop(pathname, 1)
              ELSE pathname
        p2 == IF ~StartsWith(p1, ROOTNAME \o <<"/">>)
              THEN ROOTNAME \o <<"/">> \o p1 ELSE p1
        i == LastIndexOf(p2, "/")
    IN  IF i = 0 \/ i = Len(p2)
        THEN [exc |-> "Exception", dirname |-> <<>>, filename |-> <<>>]
        ELSE [exc |-> "", dirname |-> SubSeq(p2, 1, i - 1),
              filename |-> SubSeq(p2, i + 1, Len(p2))]

\* the position of dirname in self.dirs, 0 when it was not loaded
LoadedPos(dirs, dirname) ==
    IF \E i \in DOMAIN dirs : dirs[i].dirname = dirname
    THEN CHOOSE i \in DOMAIN dirs : dirs[i].dirname = dirname
    ELSE 0

\* IndexMod(rootdir): no directory is loaded; the two Index files
MInit ==
    /\ mfs = [index |-> [d \in IndexDirs |->
                    IF d = D_ab
                    THEN IndexText(<<>>, <<[filename |-> F_f, metadata |-> <<>>,
                                            description |-> <<"\n">>]>>)
                    ELSE IndexText(<<"\n">>,
                                   <<[filename |-> F_g, metadata |-> <<>>,
                                      description |-> <<"\n">>]>>)],
              new |-> [d \in IndexDirs |-> NoFile],
              old |-> [b \in BackupNames |-> NoFile]]
    /\ mdirs = <<>>
    /\ ment = NoEnt
    /\ mret = NoRet
    /\ mhist = [changed |-> {}, called |-> {}]
    /\ mn = 0
    /\ ANone
    /\ GNone
    /\ TNone
    /\ HNone
    /\ WNone

\* indexmod.hasfile(pathname)
MHasFile ==
    /\ mn < MaxOps
    /\ \E pathname \in Pathnames :
        LET sp == split(pathname)
            i == LoadedPos(mdirs, sp.dirname)
        IN  mret' = [NoRet EXCEPT
                        !.op = "hasfile",
                        !.exc = sp.exc,
                        !.found = /\ sp.exc = ""
                                  /\ i # 0
                                  /\ dir_hasfile(mdirs[i], sp.filename)]
    /\ mn' = mn + 1
    /\ UNCHANGED <<mfs, mdirs, ment, mhist>>
    /\ UNCHANGED nonindexmod

\* ent = indexmod.getfile(pathname)
MGetFile ==
    /\ mn < MaxOps
    /\ \E pathname \in Pathnames :
        LET sp == split(pathname)
            i == LoadedPos(mdirs, sp.dirname)
        IN  IF sp.exc # ""
            THEN /\ mret' = [NoRet EXCEPT !.op = "getfile", !.exc = sp.exc]
                 /\ UNCHANGED <<mdirs, ment, mhist>>
            ELSE IF i = 0 /\ sp.dirname \notin IndexDirs
            THEN /\ mret' = [NoRet EXCEPT !.op = "getfile",
                                          !.exc = "FileNotFoundError"]
                 /\ UNCHANGED <<mdirs, ment, mhist>>
            ELSE LET dirs == IF i = 0
                             THEN Append(mdirs,
                                    IndexDir(sp.dirname, mfs.index[sp.dirname]))
                             ELSE mdirs
                     k == IF i = 0 THEN Len(dirs) ELSE i
                     present == \E j \in DOMAIN dirs[k].files :
                                    dirs[k].files[j].filename = sp.filename
                     g == dir_getfile(dirs[k], sp.filename)
                 IN  /\ mdirs' = [dirs EXCEPT ![k] = g.dir]
                     /\ ment' = [dir |-> k, file |-> g.pos]
                     /\ mret' = [NoRet EXCEPT !.op = "getfile",
                                              !.found = present]
                     /\ mhist' = IF present THEN mhist
                                 ELSE [changed |-> mhist.changed \cup {sp.dirname},
                                       called |-> mhist.called \cup {sp.dirname}]
    /\ mn' = mn + 1
    /\ UNCHANGED mfs
    /\ UNCHANGED nonindexmod

\* ent.add_metadata(key, val) or ent.add_metadata(key, val, dirty=...)
MAddMetadata ==
    /\ mn < MaxOps
    /\ ment # NoEnt
    /\ \E key \in {"k"}, val \in {"v"}, dirty \in BOOLEAN :
        LET d == mdirs[ment.dir].dirname
        IN  /\ mdirs' = [mdirs EXCEPT ![ment.dir].files[ment.file] =
                            add_metadata(@, key, val, dirty)]
            /\ mhist' = [changed |-> IF dirty THEN mhist.changed \cup {d}
                                     ELSE mhist.changed,
                         called |-> mhist.called \cup {d}]
            /\ mret' = [NoRet EXCEPT !.op = "add_metadata"]
    /\ mn' = mn + 1
    /\ UNCHANGED <<mfs, ment>>
    /\ UNCHANGED nonindexmod

\* indexmod.rewrite(olddir, dryrun): olddir is given or left None
MRewrite ==
    /\ mn < MaxOps
    /\ \E olddir \in BOOLEAN, dryrun \in BOOLEAN :
        LET r == rewrite(mdirs, mfs, olddir, dryrun, 1, {})
        IN  /\ mdirs' = r.dirs
            /\ mfs' = r.fs
            /\ mret' = [NoRet EXCEPT !.op = "rewrite", !.olddir = olddir,
                                     !.dryrun = dryrun, !.written = r.written,
                                     !.before = mfs.index]
            /\ mhist' = IF dryrun THEN mhist
                        ELSE [changed |-> mhist.changed \ r.written,
                              called |-> mhist.called \ r.written]
    /\ mn' = mn + 1
    /\ UNCHANGED ment
    /\ UNCHANGED nonindexmod

MNext == MHasFile \/ MGetFile \/ MAddMetadata \/ MRewrite

SpecIndexMod == MInit /\ [][MNext]_vars

-----------------------------------------------------------------------------
(* parse_master_index alone, on files with separator lines *)

\* how many lines follow "# if-archive:"
MaxSepLines == 3

SepKinds == {"dashes", "spaced", "dashname", "bangname", "plain", "text", "blank"}

\* "-----", "- -", "## -", "## !", "## foo.zip", the i-th letter, ""
SepLine(kind, i) ==
    CASE kind = "dashes" -> <<"-", "-", "-", "-", "-">>
      [] kind = "spaced" -> <<"-", " ", "-">>
      [] kind = "dashname" -> <<"#", "#", " ", "-">>
      [] kind = "bangname" -> <<"#", "#", " ", "!">>
      [] kind = "plain" -> PlainLine
      [] kind = "text" -> TextLine(i)
      [] kind = "blank" -> <<>>

\* the Master-Index files: "# if-archive:" and up to MaxSepLines lines
SepFiles ==
    {<<RootHeader>> \o [i \in 1..Len(shape) |-> SepLine(shape[i], i)] :
        shape \in SeqsUpTo(SepKinds, MaxSepLines)}

\* construct_archtree(indexpath, None) before line 1005: the root Directory
\* is there, the Master-Index file is about to be read
SepInit ==
    /\ \E ls \in SepFiles : index = [given |-> TRUE, lines |-> ls]
    /\ treedir = <<>>
    /\ disk = <<>>
    /\ dirmap = ScanStart.dm
    /\ stderr = <<>>
    /\ hcache = [f \in {} |-> <<>>]
    /\ hfile = <<>>
    /\ aexc = ""
    /\ apc = "scanned"
    /\ noindex = <<>>
    /\ xml = <<>>
    /\ GNone
    /\ TNone
    /\ HNone
    /\ WNone
    /\ MNone

\* line 1006: parse_master_index(indexpath, archtree)
SepParse ==
    /\ apc = "scanned"
    /\ LET r == parse_master_index(index.lines, dirmap, stderr)
       IN  dirmap' = r.dm /\ stderr' = r.err
    /\ apc' = "parsed"
    /\ UNCHANGED <<treedir, disk, index, hcache, hfile, aexc, noindex, xml>>
    /\ UNCHANGED nontree

SepNext == SepParse

SpecSeparators == SepInit /\ [][SepNext]_vars

-----------------------------------------------------------------------------
(* generate_output_datelist on trees whose files are of every age *)

\* most files of a tree of this family
MaxDated == 4

\* the file names, in the order os.scandir returns them
DatedNames == <<N_a, N_b, <<"c">>, <<"d">>, <<"e">>, <<"f">>>>

\* st_mtime: older than a year, within the year, within three months, within
\* the month but one second too old for the week, exactly a week old
DatedTimes == {5, 10000000, 33000000, 39395199, 39395200}

\* if-archive/games/ and up to MaxDated files in if-archive/
DatedDisks ==
    {<<DiskEntry(ROOTNAME, N_games, "dir", 0, 2, <<>>, "")>>
        \o [i \in 1..Len(ts) |->
                DiskEntry(ROOTNAME, DatedNames[i], "file", 1, ts[i], <<>>, "x")] :
        ts \in SeqsUpTo(DatedTimes, MaxDated)}

\* the build after construct_archtree and check_missing_files, for a tree of
\* this family and no Master-Index
DInit ==
    /\ \E d \in DatedDisks :
        LET st == construct_archtree(NoIndex, TREEDIR, d)
        IN  /\ st.exc = ""
            /\ treedir = TREEDIR
            /\ disk = d
            /\ dirmap = st.dm
            /\ hcache = st.hcache
            /\ hfile = st.hfile
            /\ stderr = check_missing_files(st.dm, <<>>, 1, st.err)
    /\ index = NoIndex
    /\ nounbox = {}
    /\ aexc = ""
    /\ apc = "checked"
    /\ noindex = <<>>
    /\ xml = <<>>
    /\ datelist = <<>>
    /\ pages = <<>>
    /\ TNone
    /\ HNone
    /\ WNone
    /\ MNone

DNext == GenerateDatelist

SpecDates == DInit /\ [][DNext]_vars

-----------------------------------------------------------------------------
(* generate_output_indexes on directories with entries of every kind *)

\* most lines after "# if-archive:" in a Master-Index file of this family
MaxListLines == 3

N_lnk == <<"l", "n", "k">>

\* if-archive/{foo.zip, games/{foo.zip, data/, lnk -> data/}, lnk -> games/,
\* ln -> foo.zip}
ListTree ==
    << DiskEntry(ROOTNAME, N_foo, "file", 3, 5, <<>>, "zip"),
       DiskEntry(ROOTNAME, N_games, "dir", 0, 2, <<>>, ""),
       DiskEntry(ROOTNAME, N_lnk, "symdir", 0, 2, N_games \o <<"/">>, ""),
       DiskEntry(ROOTNAME, N_ln, "symfile", 0, 5, N_foo, ""),
       DiskEntry(PathJoin(ROOTNAME, N_games), N_foo, "file", 3, 5, <<>>, "zip"),
       DiskEntry(PathJoin(ROOTNAME, N_games), N_data, "dir", 0, 2, <<>>, ""),
       DiskEntry(PathJoin(ROOTNAME, N_games), N_lnk, "symdir", 0, 2,
                 N_data \o <<"/">>, "") >>

ListKinds == {"plain", "nofile", "deep", "deepdir", "deeplink", "text"}

\* "## foo.zip", "## nofile", "## games/foo.zip", "## games/data",
\* "## games/lnk" or a line of description
ListLine(kind, i) ==
    CASE kind = "plain" -> PlainLine
      [] kind = "nofile" -> <<"#", "#", " ">> \o N_nofile
      [] kind = "deep" -> DeepLine
      [] kind = "deepdir" -> <<"#", "#", " ">> \o PathJoin(N_games, N_data)
      [] kind = "deeplink" -> <<"#", "#", " ">> \o PathJoin(N_games, N_lnk)
      [] kind = "text" -> TextLine(i)

\* the Master-Index files: "# if-archive:" and up to MaxListLines lines
ListIndexes ==
    {<<RootHeader>> \o [i \in 1..Len(shape) |-> ListLine(shape[i], i)] :
        shape \in SeqsUpTo(ListKinds, MaxListLines)}

\* the build after construct_archtree and check_missing_files, for ListTree
\* and a Master-Index of this family
LInit ==
    /\ \E d \in {ListTree}, ls \in ListIndexes :
        LET ix == [given |-> TRUE, lines |-> ls]
            st == construct_archtree(ix, TREEDIR, d)
        IN  /\ st.exc = ""
            /\ treedir = TREEDIR
            /\ disk = d
            /\ index = ix
            /\ dirmap = st.dm
            /\ hcache = st.hcache
            /\ hfile = st.hfile
            /\ stderr = check_missing_files(st.dm, <<>>, 1, st.err)
    /\ nounbox = {}
    /\ aexc = ""
    /\ apc = "checked"
    /\ noindex = <<>>
    /\ xml = <<>>
    /\ datelist = <<>>
    /\ pages = <<>>
    /\ TNone
    /\ HNone
    /\ WNone
    /\ MNone

LNext == GenerateDatelist \/ GenerateIndexes

SpecLists == LInit /\ [][LNext]_vars

-----------------------------------------------------------------------------
(* generate_output_indexes on files of every name and unbox-link value *)

\* foo.zip, data, A.TGZ, b.tar.Z, c.tar.gz, zip, a.zip.txt
SuffixNames ==
    { N_foo, N_data, <<"A", ".", "T", "G", "Z">>,
      <<"b", ".", "t", "a", "r", ".", "Z">>,
      <<"c", ".", "t", "a", "r", ".", "g", "z">>,
      <<"z", "i", "p">>,
      <<"a", ".", "z", "i", "p", ".", "t", "x", "t">> }

\* the values of unbox-link: true, True, TRUE, false, yes, and none
LinkValues ==
    { C_true, <<"T", "r", "u", "e">>, <<"T", "R", "U", "E">>, C_false,
      <<"y", "e", "s">>, <<>> }

\* "# if-archive:", "## name", then "unbox-link: value" if there is a value
\* and "unbox-block: false" if block
SuffixIndex(n, v, block) ==
    <<RootHeader, <<"#", "#", " ">> \o n>>
        \o (IF v # <<>> THEN <<UnboxLine(K_unbox_link, v)>> ELSE <<>>)
        \o (IF block THEN <<UnboxLine(K_unbox_block, C_false)>> ELSE <<>>)

\* the no-unbox-link lists: empty, if-archive, if-archive/games
NoUnboxLists == { {}, {ROOTNAME}, {PathJoin(ROOTNAME, N_games)} }

\* the build after construct_archtree and check_missing_files, for a
\* Master-Index with one file and no tree
UInit ==
    /\ \E n \in SuffixNames, v \in LinkValues, block \in BOOLEAN, ns \in NoUnboxLists :
        LET ix == [given |-> TRUE, lines |-> SuffixIndex(n, v, block)]
            st == construct_archtree(ix, <<>>, <<>>)
        IN  /\ st.exc = ""
            /\ index = ix
            /\ nounbox = ns
            /\ dirmap = st.dm
            /\ hcache = st.hcache
            /\ hfile = st.hfile
            /\ stderr = check_missing_files(st.dm, <<>>, 1, st.err)
    /\ treedir = <<>>
    /\ disk = <<>>
    /\ aexc = ""
    /\ apc = "checked"
    /\ noindex = <<>>
    /\ xml = <<>>
    /\ datelist = <<>>
    /\ pages = <<>>
    /\ TNone
    /\ HNone
    /\ WNone
    /\ MNone

UNext == GenerateDatelist \/ GenerateIndexes

SpecUnbox == UInit /\ [][UNext]_vars

-----------------------------------------------------------------------------
(* The text of checksum-cache.txt: what get_hashes writes, what __init__ reads *)

\* how many get_hashes calls are followed
MaxCacheCalls == 3

\* the files asked about: "p", and "q " whose name ends in a space
CachePaths == { <<"p">>, <<"q", " ">> }

\* int(sta.st_mtime): after 1970, and before
CacheTimes == {5, -5}

\* [0-9a-f]
LowerHex == {DigitChars[i] : i \in 1..10} \cup {"a", "b", "c", "d", "e", "f"}

\* hexdigest(): the digits of a checksum
hexdigest(h) ==
    <<IF h[1] = "md5" THEN "5" ELSE "2">> \o <<IF h[2] = "x" THEN "a" ELSE "b">>

\* line 422: '%d\t%d\t%s\t%s\t%s\n' % (size, timestamp, md5, sha512, filename)
FormatLine(l) ==
    IntToChars(l.size) \o <<"\t">> \o IntToChars(l.timestamp) \o <<"\t">>
        \o hexdigest(l.md5) \o <<"\t">> \o hexdigest(l.sha512) \o <<"\t">>
        \o l.filename \o <<"\n">>

\* the characters of the cache file
CacheText(hf) == Flatten([i \in 1..Len(hf) |-> FormatLine(hf[i])])

\* the lines fl.readline() returns, without their line ends: a file opened
\* as text ends a line at "\n" and at "\r"
RECURSIVE ReadLines(_)
ReadLines(text) ==
    IF text = <<>> THEN <<>>
    ELSE LET Ends == {i \in 1..Len(text) : text[i] \in {"\n", "\r"}}
             i == IF Ends = {} THEN Len(text) + 1
                  ELSE CHOOSE e \in Ends : \A o \in Ends : e <= o
         IN  <<SubSeq(text, 1, i - 1)>>
                \o ReadLines(SubSeq(text, i + 1, Len(text)))

\* the first index from i on whose character is not in S
RECURSIVE Span(_, _, _)
Span(s, i, S) == IF i <= Len(s) /\ s[i] \in S THEN Span(s, i + 1, S) ELSE i

\* lines 400-407: pattern.match(ln.rstrip()) for
\* ^([0-9]+)\s([0-9]+)\s([0-9a-f]+)\s([0-9a-f]+)\s(.*)$ and the record of
\* its groups; ok is false when the line does not match
MatchLine(line) ==
    LET ln == RStrip(line)
        Digits == {DigitChars[i] : i \in 1..10}
        IsSep(i) == i <= Len(ln) /\ ln[i] \in Whitespace
        a == Span(ln, 1, Digits)
        b == Span(ln, a + 1, Digits)
        c == Span(ln, b + 1, LowerHex)
        d == Span(ln, c + 1, LowerHex)
    IN  IF /\ a > 1 /\ IsSep(a)
           /\ b > a + 1 /\ IsSep(b)
           /\ c > b + 1 /\ IsSep(c)
           /\ d > c + 1 /\ IsSep(d)
        THEN [ok |-> TRUE,
              size |-> CharsToInt(SubSeq(ln, 1, a - 1)),
              timestamp |-> CharsToInt(SubSeq(ln, a + 1, b - 1)),
              md5 |-> SubSeq(ln, b + 1, c - 1),
              sha512 |-> SubSeq(ln, c + 1, d - 1),
              filename |-> SubSeq(ln, d + 1, Len(ln))]
        ELSE [ok |-> FALSE, size |-> 0, timestamp |-> 0, md5 |-> <<>>,
              sha512 |-> <<>>, filename |-> <<>>]

\* lines 394-409: self.cache after every line of the file is read
RECURSIVE LoadLines(_, _)
LoadLines(lines, hc) ==
    IF lines = <<>> THEN hc
    ELSE LET m == MatchLine(Head(lines))
         IN  LoadLines(Tail(lines),
                IF m.ok
                THEN [k \in (DOMAIN hc) \cup {m.filename} |->
                        IF k = m.filename
                        THEN [size |-> m.size, timestamp |-> m.timestamp,
                              md5 |-> m.md5, sha512 |-> m.sha512]
                        ELSE hc[k]]
                ELSE hc)

\* FileHasher.__init__ on a cache file with this text
LoadText(text) == LoadLines(ReadLines(text), [f \in {} |-> <<>>])

\* the cache files a run can start with: none or an empty one, or one line
CacheFiles == {<<>>, <<HashLine(<<"p">>, 1, 5, "x")>>}

CInit ==
    /\ hfile \in CacheFiles
    /\ hcache = LoadCache(hfile, 1, [f \in {} |-> <<>>])
    /\ hdisk \in [CachePaths -> HashData]
    /\ hreads = 0
    /\ hlast = NoCall
    /\ hn = 0
    /\ treedir = <<>>
    /\ disk = <<>>
    /\ index = NoIndex
    /\ dirmap = <<>>
    /\ stderr = <<>>
    /\ aexc = ""
    /\ apc = "idle"
    /\ noindex = <<>>
    /\ xml = <<>>
    /\ GNone
    /\ TNone
    /\ WNone
    /\ MNone

\* hasher.get_hashes(filename, size, timestamp)
CacheCall ==
    /\ hn < MaxCacheCalls
    /\ \E filename \in CachePaths, size \in HashSizes, timestamp \in CacheTimes :
        LET h == get_hashes(hcache, hfile, filename, size, timestamp,
                            hdisk[filename])
        IN  /\ hcache' = h.cache
            /\ hfile' = h.file
            /\ hreads' = hreads + h.reads
            /\ hlast' = [filename |-> filename, size |-> size,
                         timestamp |-> timestamp,
                         md5 |-> h.md5, sha512 |-> h.sha512]
    /\ hn' = hn + 1
    /\ UNCHANGED hdisk
    /\ UNCHANGED <<treedir, disk, index, dirmap, stderr, aexc, apc, noindex, xml>>
    /\ UNCHANGED nonhasher

CNext == CacheCall

SpecCacheFile == CInit /\ [][CNext]_vars

-----------------------------------------------------------------------------
(* parse_directory_tree alone, on trees with symlinks that lead back *)

\* most symlinks in a tree of this family
MaxLinks == 2

N_zz == <<"z", "z">>

\* the symlinks: in if-archive, in games or in games/data; named lnk or ln;
\* to the parent directory, to the directory that holds the link, or to the
\* link itself
LinkPool ==
    {DiskEntry(d, n, k[1], 0, 2, k[2], "") :
        d \in {ROOTNAME, PathJoin(ROOTNAME, N_games),
               PathJoin(PathJoin(ROOTNAME, N_games), N_data)},
        n \in {N_lnk, N_ln},
        k \in {<<"symdir", <<".", ".">>>>, <<"symdir", <<".">>>>}}
    \cup
    {DiskEntry(d, n, "symloop", 0, 2, n, "") :
        d \in {ROOTNAME, PathJoin(ROOTNAME, N_games),
               PathJoin(PathJoin(ROOTNAME, N_games), N_data)},
        n \in {N_lnk, N_ln}}

\* up to MaxLinks symlinks with different paths, then
\* if-archive/{games/{data/}, zz/}
LinkDisks ==
    {q \o <<DiskEntry(ROOTNAME, N_games, "dir", 0, 2, <<>>, ""),
            DiskEntry(PathJoin(ROOTNAME, N_games), N_data, "dir", 0, 2, <<>>, ""),
            DiskEntry(ROOTNAME, N_zz, "dir", 0, 2, <<>>, "")>> :
        q \in {s \in SeqsUpTo(LinkPool, MaxLinks) :
                \A i, j \in 1..Len(s) :
                    (s[i].dir = s[j].dir /\ s[i].name = s[j].name) => i = j}}

\* construct_archtree before it scans one of these trees
ScanInit ==
    /\ treedir = TREEDIR
    /\ disk \in LinkDisks
    /\ index = NoIndex
    /\ dirmap = <<>>
    /\ stderr = <<>>
    /\ hcache = [f \in {} |-> <<>>]
    /\ hfile = <<>>
    /\ aexc = ""
    /\ apc = "start"
    /\ noindex = <<>>
    /\ xml = <<>>
    /\ TNone
    /\ HNone
    /\ WNone
    /\ MNone
    /\ GNone

ScanNext == ConstructScan

SpecScan == ScanInit /\ [][ScanNext]_vars

-----------------------------------------------------------------------------
(* IndexDir on the text of an Index file: __init__, rewrite, and again *)

\* most lines of an Index file of this family
MaxIndexLines == 3

RtKinds == {"file", "meta", "empty", "other", "cont", "blank", "text"}

\* "# f", "k: a", "k:", "j: b", a tab and "c", "", "t"
RtLine(kind) ==
    CASE kind = "file" -> <<"#", " ", "f">>
      [] kind = "meta" -> <<"k", ":", " ", "a">>
      [] kind = "empty" -> <<"k", ":">>
      [] kind = "other" -> <<"j", ":", " ", "b">>
      [] kind = "cont" -> <<"\t", "c">>
      [] kind = "blank" -> <<>>
      [] kind = "text" -> <<"t">>

\* the Index files: up to MaxIndexLines lines, the last one with or without
\* its line end
RtTexts ==
    LET Whole(shape) == Flatten([i \in 1..Len(shape) |-> RtLine(shape[i]) \o <<"\n">>])
    IN  {Whole(shape) : shape \in SeqsUpTo(RtKinds, MaxIndexLines)}
        \cup {SubSeq(Whole(shape), 1, Len(Whole(shape)) - 1) :
                shape \in SeqsUpTo(RtKinds, MaxIndexLines) \ {<<>>}}

\* infl.readlines(): the lines with their line ends
RECURSIVE readlines(_)
readlines(text) ==
    IF text = <<>> THEN <<>>
    ELSE LET i == IndexFrom(text, "\n", 1)
         IN  IF i = 0 THEN <<text>>
             ELSE <<SubSeq(text, 1, i)>> \o readlines(Drop(text, i))

\* filename_pattern.match(ln): '^#[^#]'
IsFilenameLine(ln) == Len(ln) >= 2 /\ ln[1] = "#" /\ ln[2] # "#"

\* meta_start_pattern.match(ln): '^[ ]?[ ]?[ ]?([a-zA-Z0-9_-]+):'; the
\* position of the colon, 0 when the line does not match
MetaStartEnd(ln) ==
    LET sp == RunLength(ln, {" "})
        k == RunLength(Drop(ln, sp), KeyChars)
    IN  IF sp <= 3 /\ k >= 1 /\ sp + k + 1 <= Len(ln) /\ ln[sp + k + 1] = ":"
        THEN sp + k + 1 ELSE 0

\* match.group(1)
MetaStartKey(ln) ==
    SubSeq(ln, RunLength(ln, {" "}) + 1, MetaStartEnd(ln) - 1)

\* meta_cont_pattern.match(ln): '^(    |\t)'; match2.end(), 0 when the line
\* does not match
MetaContEnd(ln) ==
    IF Len(ln) >= 1 /\ ln[1] = "\t" THEN 1
    ELSE IF RunLength(ln, {" "}) >= 4 THEN 4 ELSE 0

\* self.files[filename] = curfile: a new key goes to the end, a key that is
\* there keeps its place and gets the new value
PutFile(files, file) ==
    IF \E p \in 1..Len(files) : files[p].filename = file.filename
    THEN [p \in 1..Len(files) |->
            IF files[p].filename = file.filename THEN file ELSE files[p]]
    ELSE Append(files, file)

\* the position of the entry that curfile is
CurPos(st) == CHOOSE p \in 1..Len(st.files) : st.files[p].filename = st.cur

\* lines 140-144: the line goes to the description of curfile, after a blank
\* line if it is the first one and is not blank
AppendDescription(file, ln) ==
    [file EXCEPT !.description =
        (IF Len(@) = 0 /\ Strip(ln) # <<>> THEN <<<<"\n">>>> ELSE @) \o <<ln>>]

\* lines 106-144: one line of the Index file.  st holds description, files,
\* cur (the name of curfile, with hascur false for None) and curmetaline
\* ("None", "True", or "str" with the key in metakey)
LoadLine(st, ln) ==
    IF IsFilenameLine(ln)
    THEN [st EXCEPT !.files = PutFile(@, IndexFile(Strip(Drop(ln, 1)))),
                    !.cur = Strip(Drop(ln, 1)), !.hascur = TRUE,
                    !.curmetaline = "True"]
    ELSE IF ~st.hascur
    THEN [st EXCEPT !.description = Append(@, ln)]
    ELSE LET p == CurPos(st)
             AsDescription(s) ==
                [s EXCEPT !.files[p] = AppendDescription(@, ln)]
         IN  IF st.curmetaline = "None" THEN AsDescription(st)
             ELSE IF Strip(ln) = <<>>
             THEN AsDescription([st EXCEPT !.curmetaline = "None"])
             ELSE IF MetaStartEnd(ln) # 0
             THEN [st EXCEPT !.curmetaline = "str",
                             !.metakey = MetaStartKey(ln),
                             !.files[p] = add_metadata(@, MetaStartKey(ln),
                                            Strip(Drop(ln, MetaStartEnd(ln))),
                                            FALSE)]
             ELSE IF st.curmetaline = "str" /\ MetaContEnd(ln) # 0
             THEN [st EXCEPT !.files[p] = add_metadata(@, st.metakey,
                                            Strip(Drop(ln, MetaContEnd(ln))),
                                            FALSE)]
             ELSE AsDescription([st EXCEPT !.curmetaline = "None"])

RECURSIVE LoadIndexLines(_, _)
LoadIndexLines(st, lines) ==
    IF lines = <<>> THEN st
    ELSE LoadIndexLines(LoadLine(st, Head(lines)), Tail(lines))

\* IndexDir.__init__ on an Index file with this text: description and files
IndexDirOfText(text) ==
    LET st == LoadIndexLines([description |-> <<>>, files |-> <<>>,
                              cur |-> <<>>, hascur |-> FALSE,
                              curmetaline |-> "None", metakey |-> <<>>],
                             readlines(text))
    IN  [description |-> st.description, files |-> st.files]

\* lines 182-186 and 199-203: the lines, and "\n" when there is none or the
\* last one is not blank
WriteDescription(description) ==
    Flatten(description)
        \o (IF description = <<>> \/ Strip(description[Len(description)]) # <<>>
            THEN <<"\n">> ELSE <<>>)

\* lines 190-197: 'key: val' for the first value of a key, '    val' for the
\* values after it
WriteMetadata(metadata) ==
    Flatten([i \in 1..Len(metadata) |->
        Flatten([j \in 1..Len(metadata[i].ls) |->
            (IF j = 1 THEN metadata[i].key \o <<":", " ">>
             ELSE <<" ", " ", " ", " ">>)
                \o metadata[i].ls[j] \o <<"\n">>])])

\* lines 179-208: what rewrite() writes to Index-new
RewriteText(d) ==
    WriteDescription(d.description)
        \o Flatten([i \in 1..Len(d.files) |->
                <<"#", " ">> \o d.files[i].filename \o <<"\n">>
                    \o WriteMetadata(d.files[i].metadata)
                    \o WriteDescription(d.files[i].description)])

\* an Index file, and no IndexDir yet
RInit ==
    /\ mfs \in RtTexts
    /\ mdirs = <<>>
    /\ ment = NoEnt
    /\ mret = NoRet
    /\ mhist = [loads |-> <<>>, texts |-> <<>>]
    /\ mn = 0
    /\ ANone
    /\ GNone
    /\ TNone
    /\ HNone
    /\ WNone

\* IndexDir(dirname, rootdir)
RLoad ==
    /\ mn \in {0, 2}
    /\ mdirs' = <<IndexDirOfText(mfs)>>
    /\ mhist' = [mhist EXCEPT !.loads = Append(@, IndexDirOfText(mfs))]
    /\ mn' = mn + 1
    /\ UNCHANGED <<mfs, ment, mret>>
    /\ UNCHANGED nonindexmod

\* dir.rewrite(): Index-new is written and replaces Index
RRewrite ==
    /\ mn \in {1, 3}
    /\ mfs' = RewriteText(mdirs[1])
    /\ mhist' = [mhist EXCEPT !.texts = Append(@, RewriteText(mdirs[1]))]
    /\ mn' = mn + 1
    /\ UNCHANGED <<mdirs, ment, mret>>
    /\ UNCHANGED nonindexmod

RNext == RLoad \/ RRewrite

SpecRoundTrip == RInit /\ [][RNext]_vars

-----------------------------------------------------------------------------
(* Properties of the Template engine *)

\* the binding of name in the caller's map, Absent when it has none
Bound(name) == IF name \in DOMAIN tmap THEN tmap[name] ELSE Absent

Same(a, b) == a.t = b.t /\ a.v = b.v

OneOf(val, S) == \E w \in S : Same(val, w)

IsIfPiece(p) == Len(p) >= 3 /\ p[1] = "{" /\ p[2] = "?"
IsBracePiece(p) == Len(p) >= 2 /\ p[1] = "{" /\ p[Len(p)] = "}"
\* the name in {?name}, {[name} or {name}
PieceName(p, from) == Join(SubSeq(p, from, Len(p) - 1))

\* a template of the conditional family
IsCondTemplate ==
    \A i \in 1..Len(pieces) :
        \/ IsIfPiece(pieces[i])
        \/ pieces[i] \in {ElsePiece, EndifPiece}
        \/ ~IsBracePiece(pieces[i])

\* C1 as the spec states it: in {?x}yes{:}no{/}, x bound to 0 or '' gives the
\* if part, x absent or bound to False gives the else part.
C1_ZeroAndEmptyAreTruthy ==
    (tpc = "done" /\ pieces = YesNoTemplate) =>
        /\ OneOf(Bound("x"), {VInt(0), VStr(<<>>)}) => out = "yes"
        /\ OneOf(Bound("x"), {Absent, VBool(FALSE)}) => out = "no"

\* C1, amended: in {?x}yes{:}no{/}, x bound to 0 or '' gives the else part,
\* as x absent or bound to False does.
C1_ZeroAndEmptyAreFalsy ==
    (tpc = "done" /\ pieces = YesNoTemplate) =>
        (OneOf(Bound("x"), {VInt(0), VStr(<<>>), Absent, VBool(FALSE)}) => out = "no")

C1_Witness ==
    /\ tpc = "done" /\ pieces = YesNoTemplate
    /\ Same(Bound("x"), VInt(0)) /\ out = "no"

\* C2: {?x}yes{:}no{/} and {?x}yes{/} render without an exception; a missing
\* x and None, False, 0, '' give the else part (nothing when there is none);
\* a non-empty string, a non-zero int, True and a function give only the if
\* part.
C2_FalsyIsNo ==
    (pieces \in {YesNoTemplate, YesTemplate}) =>
        /\ tpc # "raised"
        /\ tpc = "done" =>
            /\ OneOf(Bound("x"), {Absent, VNone, VBool(FALSE), VInt(0), VStr(<<>>)})
                => out = (IF pieces = YesNoTemplate THEN "no" ELSE "")
            /\ OneOf(Bound("x"), {VStr(Chars_string), VInt(987), VBool(TRUE),
                                  VFunc(Chars_function)})
                => out = "yes"

C2_Witness ==
    /\ tpc = "done" /\ pieces = YesTemplate
    /\ Same(Bound("x"), VNone) /\ out = ""

\* Reference rendering of a conditional template: sel holds, for every open
\* conditional, whether the branch being read is the one its binding selects;
\* a text is written exactly when all of them are.
RECURSIVE RefCond(_, _, _)
RefCond(ps, i, sel) ==
    IF i > Len(ps) THEN ""
    ELSE IF IsIfPiece(ps[i])
         THEN LET val == Bound(PieceName(ps[i], 3))
              IN  RefCond(ps, i + 1, Append(sel, val # Absent /\ PyBool(val)))
    ELSE IF ps[i] = ElsePiece
         THEN RefCond(ps, i + 1,
                      IF sel = <<>> THEN sel ELSE [sel EXCEPT ![Len(sel)] = ~@])
    ELSE IF ps[i] = EndifPiece
         THEN RefCond(ps, i + 1, SubSeq(sel, 1, Len(sel) - 1))
    ELSE (IF \A k \in 1..Len(sel) : sel[k] THEN Join(ps[i]) ELSE "")
         \o RefCond(ps, i + 1, sel)

\* every {:} is inside an open conditional
RECURSIVE ElseInside(_, _, _)
ElseInside(ps, i, depth) ==
    IF i > Len(ps) THEN TRUE
    ELSE IF IsIfPiece(ps[i]) THEN ElseInside(ps, i + 1, depth + 1)
    ELSE IF ps[i] = EndifPiece THEN ElseInside(ps, i + 1, depth - 1)
    ELSE IF ps[i] = ElsePiece THEN depth > 0 /\ ElseInside(ps, i + 1, depth)
    ELSE ElseInside(ps, i + 1, depth)

\* C3 as stated: in every template whose {?..}/{/} are balanced, a text is
\* written exactly when every conditional around it selects its branch (so
\* text after the final {/}, which has none around it, is always written).
C3_BalancedNesting ==
    IsCondTemplate =>
        /\ tpc # "raised"
        /\ tpc = "done" => out = RefCond(pieces, 1, <<>>)

\* C3, amended: the same, for the balanced templates in which every {:} is
\* inside a conditional.
C3_NestingElseInside ==
    (IsCondTemplate /\ ElseInside(pieces, 1, 0)) =>
        /\ tpc # "raised"
        /\ tpc = "done" => out = RefCond(pieces, 1, <<>>)

\* {?x}{?y}{:}d{/}{/} with neither bound: the inner else part stays silent
C3_Witness ==
    /\ tpc = "done"
    /\ pieces = <<IfPiece(<<"x">>), IfPiece(<<"y">>), ElsePiece, <<"d">>,
                  EndifPiece, EndifPiece>>
    /\ tmap = EmptyDict
    /\ out = ""

IsRepTemplate ==
    \A i \in 1..Len(pieces) :
        \/ pieces[i] \in {RepeatPiece(<<"r">>), EndRepeatPiece,
                          VarPiece(<<"r", ":", "v", "a", "l", "u", "e">>, <<>>)}
        \/ ~IsBracePiece(pieces[i])

\* some {[r} has no {]} after it, or some {]} has no {[r} before it
RECURSIVE UnmatchedRepeat(_, _, _)
UnmatchedRepeat(ps, i, depth) ==
    IF i > Len(ps) THEN depth > 0
    ELSE IF ps[i] = RepeatPiece(<<"r">>) THEN UnmatchedRepeat(ps, i + 1, depth + 1)
    ELSE IF ps[i] = EndRepeatPiece
         THEN depth = 0 \/ UnmatchedRepeat(ps, i + 1, depth - 1)
    ELSE UnmatchedRepeat(ps, i + 1, depth)

\* C4: a template with an unmatched {[r} or {]} gets a diagnostic when it is
\* compiled, and rendering it never raises, whatever r is bound to.
C4_UnmatchedRepeatRenders ==
    (IsRepTemplate /\ UnmatchedRepeat(pieces, 1, 0)) =>
        /\ tpc # "raised"
        /\ tpc # "start" => \E i \in 1..Len(diag) :
                diag[i] \in {"Problem: unmatched repeat-tag",
                             "Problem: unmatched endrepeat-tag"}

\* a template {v|fs1},{v|fs2}. of the variable family
IsVarTemplate == Len(pieces) = 4 /\ pieces[2] = <<",">> /\ pieces[4] = <<".">>

\* C5: {v...},{v...}. never raises; v missing or None writes [UNKNOWN] for
\* each tag, v of a type other than str/int/bool/callable writes
\* [NOT-PRINTABLE] for each tag, with one diagnostic per tag, and the text
\* and the tag that follow are rendered.
C5_PlaceholdersNotExceptions ==
    IsVarTemplate =>
        /\ tpc # "raised"
        /\ tpc = "done" =>
            /\ Bound("v").t \in {"absent", "none"} =>
                /\ out = "[UNKNOWN],[UNKNOWN]."
                /\ diag = <<"Problem: undefined brace-tag: v",
                            "Problem: undefined brace-tag: v">>
            /\ Bound("v").t \in {"list", "dict", "object"} =>
                /\ out = "[NOT-PRINTABLE],[NOT-PRINTABLE]."
                /\ diag = <<"Problem: unprintable brace-tag type: v",
                            "Problem: unprintable brace-tag type: v">>

C5_Witness ==
    /\ tpc = "done" /\ IsVarTemplate
    /\ Bound("v").t = "object"
    /\ out = "[NOT-PRINTABLE],[NOT-PRINTABLE]."

\* fn(...f2(f1(s))...) for the registered filters among f1..fn
RECURSIVE RefPipe(_, _)
RefPipe(fs, s) ==
    IF fs = <<>> THEN s
    ELSE LET last == fs[Len(fs)]
             inner == RefPipe(SubSeq(fs, 1, Len(fs) - 1), s)
         IN  IF last \in FilterNames THEN ApplyFilter(last, inner) ELSE inner

\* C6: {v|fs1},{v|fs2}. with v a str, int or bool writes fs1 applied to
\* str(v) in the order written, then fs2 applied to str(v): each use is
\* filtered on its own.
C6_FiltersInOrder ==
    (tpc = "done" /\ IsVarTemplate /\ Bound("v").t \in {"str", "int", "bool"}) =>
        \A fs1 \in SeqsUpTo(PipeNames, MaxFilters), fs2 \in SeqsUpTo(PipeNames, 1) :
            pieces = VarTemplate(fs1, fs2) =>
                out = Join(RefPipe(fs1, PyStr(Bound("v")))) \o ","
                        \o Join(RefPipe(fs2, PyStr(Bound("v")))) \o "."

\* {v|html|upper},{v|upper}. with v = 'a&b'
C6_Witness ==
    /\ tpc = "done"
    /\ pieces = VarTemplate(<<"html", "upper">>, <<"upper">>)
    /\ Same(Bound("v"), VStr(<<"a", "&", "b">>))
    /\ out = "A&AMP;B,A&B."

RepeatAt == {i \in 1..Len(pieces) : pieces[i] = RepeatPiece(<<"r">>)}
EndRepeatAt == {i \in 1..Len(pieces) : pieces[i] = EndRepeatPiece}

\* a template pre {[r} body {]} post of the repetition family
IsSingleBlock ==
    /\ IsRepTemplate
    /\ Cardinality(RepeatAt) = 1 /\ Cardinality(EndRepeatAt) = 1
    /\ (CHOOSE i \in RepeatAt : TRUE) < (CHOOSE j \in EndRepeatAt : TRUE)

\* text and {r:value} segments, with r:value bound to val
RECURSIVE RefFlat(_, _)
RefFlat(ps, val) ==
    IF ps = <<>> THEN ""
    ELSE (IF IsBracePiece(Head(ps))
          THEN (IF val = Absent THEN "[UNKNOWN]" ELSE Join(PyStr(val)))
          ELSE Join(Head(ps)))
         \o RefFlat(Tail(ps), val)

\* block once per element of items, in order
RECURSIVE RefEach(_, _)
RefEach(block, items) ==
    IF items = <<>> THEN ""
    ELSE RefFlat(block, Head(items)) \o RefEach(block, Tail(items))

\* <i, then F for the first element and N for the others
RECURSIVE RefFirst(_, _)
RefFirst(items, i) ==
    IF i > Len(items) THEN ""
    ELSE "<" \o Join(PyStr(items[i])) \o (IF i = 1 THEN "F" ELSE "N")
         \o RefFirst(items, i + 1)

RECURSIVE RefInner(_)
RefInner(items) ==
    IF items = <<>> THEN "" ELSE "B" \o Join(PyStr(Head(items))) \o RefInner(Tail(items))

\* A, the inner block once per element of inner, C and the element, for
\* every element of items
RECURSIVE RefNested(_, _)
RefNested(items, inner) ==
    IF items = <<>> THEN ""
    ELSE "A" \o RefInner(inner) \o "C" \o Join(PyStr(Head(items)))
         \o RefNested(Tail(items), inner)

\* C7: with r bound to a list, pre{[r}block{]}post writes pre, then block
\* once per element in order with r:value the element, then post (where
\* r:value is unbound again); r:first is true in the first iteration only;
\* a block over s nested in the block over r ends at its own {]}.
C7_RepeatOncePerElement ==
    (Bound("r").t = "list") =>
        /\ IsSingleBlock =>
            /\ tpc # "raised"
            /\ LET i == CHOOSE i \in RepeatAt : TRUE
                   j == CHOOSE j \in EndRepeatAt : TRUE
               IN  tpc = "done" =>
                    out = RefFlat(SubSeq(pieces, 1, i - 1), Absent)
                            \o RefEach(SubSeq(pieces, i + 1, j - 1), Bound("r").v)
                            \o RefFlat(SubSeq(pieces, j + 1, Len(pieces)), Absent)
        /\ pieces = FirstTemplate =>
            /\ tpc # "raised"
            /\ tpc = "done" => out = RefFirst(Bound("r").v, 1) \o "T"
        /\ pieces = NestedTemplate =>
            /\ tpc # "raised"
            /\ tpc = "done" => out = RefNested(Bound("r").v, Bound("s").v) \o "D"

C7_Witness ==
    /\ tpc = "done" /\ pieces = NestedTemplate
    /\ Same(Bound("r"), VList(<<VInt(1), VInt(2)>>))
    /\ Same(Bound("s"), VList(<<VInt(1), VInt(2)>>))
    /\ out = "AB1B2C1AB1B2C2D"

-----------------------------------------------------------------------------
(* Properties of the archive tree.  They read the Master-Index file by the  *)
(* kind of each line (header, marker, text), not with the parser.          *)

GamesDir == PathJoin(ROOTNAME, N_games)

IsHeaderAt(i) == index.lines[i] \in {RootHeader, GamesHeader}
IsMarkerAt(i) == index.lines[i] \in {PlainLine, DeepLine, BadLine}
Markers == {i \in 1..Len(index.lines) : IsMarkerAt(i)}

\* the header line of the block that line i is in
BlockStart(i) ==
    CHOOSE j \in 1..i : IsHeaderAt(j) /\ \A k \in (j + 1)..i : ~IsHeaderAt(k)

\* the directory of the block that line i is in
BlockDir(i) ==
    IF index.lines[BlockStart(i)] = RootHeader THEN ROOTNAME ELSE GamesDir

\* the entry name that marker line i gives
MarkerName(i) ==
    CASE index.lines[i] = PlainLine -> N_foo
      [] index.lines[i] = DeepLine -> PathJoin(N_games, N_foo)
      [] index.lines[i] = BadLine -> PathJoin(N_games, N_nofile)

\* the lines after line i up to the next marker or header
TextAfter(i) ==
    LET stop == {k \in (i + 1)..Len(index.lines) : IsHeaderAt(k) \/ IsMarkerAt(k)}
        last == IF stop = {} THEN Len(index.lines)
                ELSE (CHOOSE k \in stop : \A m \in stop : k <= m) - 1
    IN  SubSeq(index.lines, i + 1, last)

\* the marker lines that give the same entry of the same directory as line i
Occurrences(i) ==
    {k \in Markers : BlockDir(k) = BlockDir(i) /\ MarkerName(k) = MarkerName(i)}

HasEntry(dirname, name) ==
    /\ DirPos(dirmap, dirname) # 0
    /\ FilePos(dirmap[DirPos(dirmap, dirname)], name) # 0

EntryOf(dirname, name) ==
    dirmap[DirPos(dirmap, dirname)].files[
        FilePos(dirmap[DirPos(dirmap, dirname)], name)]

\* number of Entries of dirname that have the name
EntryCount(dirname, name) ==
    IF DirPos(dirmap, dirname) = 0 THEN 0
    ELSE Cardinality({k \in 1..Len(dirmap[DirPos(dirmap, dirname)].files) :
            dirmap[DirPos(dirmap, dirname)].files[k].name = name})

\* the lines of stderr that name the entry, with a message of msgs
Errors(dirname, name, msgs) ==
    {k \in 1..Len(stderr) :
        stderr[k].dir = dirname /\ stderr[k].name = name /\ stderr[k].msg \in msgs}

AnyError ==
    {"Compound file entry refers to a bad directory",
     "Compound file entry refers to a bad file",
     "Compound file entry appears twice"}

\* a "k: x" line
IsMetaText(line) == Len(line) = 4 /\ SubSeq(line, 1, 3) = <<"k", ":", " ">>

\* number of "k: x" lines the text starts with
RefMetaCount(text) ==
    Cardinality({n \in 1..Len(text) : \A k \in 1..n : IsMetaText(text[k])})

\* the metadata the text gives: the values of its leading "k: x" lines
RefMeta(text) ==
    IF RefMetaCount(text) = 0 THEN <<>>
    ELSE << <<<<"k">>, [n \in 1..RefMetaCount(text) |-> <<text[n][4]>>]>> >>

\* the Entry's description is the text after its leading metadata lines, and
\* the Entry has no description when there is no text
DescIs(f, text) ==
    IF text = <<>> THEN ~HasKey(f.submap, "desc")
    ELSE /\ HasKey(f.submap, "desc")
         /\ f.submap["desc"] = SubSeq(text, RefMetaCount(text) + 1, Len(text))

\* C8: when an entry name occurs twice in one directory block (and nowhere
\* else for that directory), and the name has an Entry, then an error was
\* reported for it, the directory holds exactly one Entry under the name, and
\* the Entry's description and metadata are the ones given with the first
\* occurrence
C8_DuplicateReportedFirstKept ==
    (apc = "parsed" /\ index.given) =>
        \A j \in Markers : \A i \in Markers :
            (/\ j < i
             /\ Occurrences(i) = {j, i}
             /\ BlockStart(j) = BlockStart(i)
             /\ HasEntry(BlockDir(i), MarkerName(i)))
            => /\ Errors(BlockDir(i), MarkerName(i), AnyError) # {}
               /\ EntryCount(BlockDir(i), MarkerName(i)) = 1
               /\ DescIs(EntryOf(BlockDir(i), MarkerName(i)), TextAfter(j))
               /\ EntryOf(BlockDir(i), MarkerName(i)).metadata = RefMeta(TextAfter(j))

\* the scanner made the Directory if-archive/games
GamesDirOnDisk == disk = GamesTree

\* if-archive/games is in the tree when the parser reads line i
GamesDirBefore(i) ==
    GamesDirOnDisk \/ \E j \in 1..(i - 1) : index.lines[j] = GamesHeader

\* if-archive/games has the Entry foo.zip when the parser reads line i
GamesFooBefore(i) ==
    \/ GamesDirOnDisk
    \/ \E j \in 1..(i - 1) : index.lines[j] = PlainLine /\ BlockDir(j) = GamesDir

\* the deep reference of marker line i points at a Directory that is there
TargetDirThere(i) == BlockDir(i) = ROOTNAME /\ GamesDirBefore(i)

\* marker line i is a deep reference whose target directory or entry is not
\* in the tree
Malformed(i) ==
    \/ index.lines[i] = BadLine
    \/ index.lines[i] = DeepLine /\ ~(TargetDirThere(i) /\ GamesFooBefore(i))

MalformedMsg(i) ==
    IF TargetDirThere(i) THEN "Compound file entry refers to a bad file"
    ELSE "Compound file entry refers to a bad directory"

\* value is one of the values of the metadata
InMeta(metadata, value) ==
    \E k \in 1..Len(metadata) :
        \E n \in 1..Len(metadata[k][2]) : metadata[k][2][n] = value

\* the line is part of some Entry's description or some Directory's header,
\* or a "k: x" line whose value is in some Entry's or Directory's metadata
Attached(line) ==
    \E d \in 1..Len(dirmap) :
        \/ IsMetaText(line) /\ InMeta(dirmap[d].metadata, <<line[4]>>)
        \/ \E f \in 1..Len(dirmap[d].files) :
            IsMetaText(line) /\ InMeta(dirmap[d].files[f].metadata, <<line[4]>>)
        \/ /\ HasKey(dirmap[d].submap, "header")
           /\ \E k \in 1..Len(dirmap[d].submap["header"]) :
                dirmap[d].submap["header"][k] = line
        \/ \E f \in 1..Len(dirmap[d].files) :
            /\ HasKey(dirmap[d].files[f].submap, "desc")
            /\ \E k \in 1..Len(dirmap[d].files[f].submap["desc"]) :
                dirmap[d].files[f].submap["desc"][k] = line

\* C9: for every deep-reference marker whose target directory or target
\* entry is not in the tree: the parser finishes; stderr has one line for
\* each such marker, naming it and what is missing; no Entry is created for
\* it; the description lines after it are part of no Entry's description;
\* and every plain marker after it has its Entry, marked as in the index,
\* with the description and metadata lines that follow it when no later
\* marker of that Entry has any
C9_MalformedDeepSkipped ==
    (apc = "parsed" /\ index.given) =>
        \A i \in Markers : Malformed(i) =>
            /\ aexc = ""
            /\ \A msg \in AnyError :
                Cardinality(Errors(BlockDir(i), MarkerName(i), {msg}))
                    = Cardinality({k \in Occurrences(i) : 
                        IF Malformed(k) THEN MalformedMsg(k) = msg
                        ELSE /\ msg = "Compound file entry appears twice"
                             /\ \E j \in Occurrences(i) : j < k /\ ~Malformed(j)})
            /\ (\A k \in Occurrences(i) : Malformed(k))
                    => ~HasEntry(BlockDir(i), MarkerName(i))
            /\ \A k \in 1..Len(TextAfter(i)) : ~Attached(TextAfter(i)[k])
            /\ \A k \in Markers :
                (k > i /\ index.lines[k] = PlainLine) =>
                    /\ HasEntry(BlockDir(k), N_foo)
                    /\ EntryOf(BlockDir(k), N_foo).inmaster
                    /\ (/\ TextAfter(k) # <<>>
                        /\ \A m \in Occurrences(k) : m > k => TextAfter(m) = <<>>)
                        => /\ DescIs(EntryOf(BlockDir(k), N_foo), TextAfter(k))
                           /\ RefMeta(TextAfter(k)) # <<>> =>
                                EntryOf(BlockDir(k), N_foo).metadata
                                    = RefMeta(TextAfter(k))

\* a malformed deep reference with description lines after it, between two
\* plain markers that have description lines too, was parsed
C9_Witness ==
    /\ apc = "parsed"
    /\ Len(index.lines) = 5
    /\ index.lines[2] = BadLine
    /\ index.lines[4] = PlainLine
    /\ TextAfter(2) # <<>>
    /\ TextAfter(4) # <<>>
    /\ Len(stderr) = 1
    /\ HasEntry(ROOTNAME, N_foo)

\* the directory entries the scanner visits: all but the hidden ones and the
\* files named Index
Visited ==
    {k \in 1..Len(disk) :
        /\ disk[k].name[1] # "."
        /\ ~(disk[k].kind = "file" /\ disk[k].name = N_Index)}

\* C10: after the scanner and the parser, every Entry the scanner visited has
\* intree true, and every Entry a marker of the index made or matched, deep
\* references included, has inmaster true
C10_FlagsAfterConstruction ==
    apc = "parsed" =>
        /\ \A k \in Visited :
            /\ HasEntry(disk[k].dir, disk[k].name)
            /\ EntryOf(disk[k].dir, disk[k].name).intree
        /\ \A i \in Markers : ~Malformed(i) =>
            /\ HasEntry(BlockDir(i), MarkerName(i))
            /\ EntryOf(BlockDir(i), MarkerName(i)).inmaster

-----------------------------------------------------------------------------
(* Properties of the later steps of the build *)

\* the dirmap positions of the Directories other than the root
NonRoot == {i \in 1..Len(dirmap) : dirmap[i].parentdirname # <<>>}

\* the Directory at position i of dirmap has been linked to its parent
LinkedAt(i) ==
    LET pp == DirPos(dirmap, dirmap[i].parentdirname)
    IN  /\ dirmap[i].parentdir = dirmap[i].parentdirname
        /\ \E k \in 1..Len(dirmap[pp].subdirs) : dirmap[pp].subdirs[k] = dirmap[i].dir

\* C11: parent-linking never aborts the build.  Once the tree is scanned and
\* parsed, the linking step ends with the tree built, whether or not a parent
\* Directory has an Entry named after its child; and then every Directory but
\* the root either has no parent in the tree, is reported and stays unlinked,
\* or is registered in its parent's subdirectory map.
C11_LinkingNeverAborts ==
    /\ aexc # "AttributeError"
    /\ apc = "built" =>
        \A i \in NonRoot :
            IF DirPos(dirmap, dirmap[i].parentdirname) = 0
            THEN /\ dirmap[i].parentdir = <<>>
                 /\ \E k \in 1..Len(stderr) :
                        stderr[k] = ErrLine("Directory's parent is not listed",
                                            <<>>, dirmap[i].dir)
            ELSE LinkedAt(i)

\* check_missing_files has run
Checked == apc \in {"checked", "catalogued"}

\* the Entries of the tree, as <<position in dirmap, position in files>>
Entries ==
    {<<i, j>> \in (1..Len(dirmap)) \X (1..8) : j <= Len(dirmap[i].files)}

Entry(e) == dirmap[e[1]].files[e[2]]

\* the lines of stderr that are the given line
LinesOf(line) == {k \in 1..Len(stderr) : stderr[k] = line}

\* the Entry is a symlink (to a file or to a directory) or stands for a
\* directory
IsLinkOrDir(f) == f.islink \/ f.isdir

\* C12: after check_missing_files, "File without index entry" is reported for
\* an Entry exactly when it was found on disk, was not found in the
\* description, is not a link (neither a symlink to a file nor a symlink or
\* reference to a directory) and no line of the no-index-entry list is a
\* prefix of its path.
C12_OrphanExactly ==
    Checked =>
        \A e \in Entries :
            (LinesOf(OrphanLine(Entry(e))) # {})
                <=> /\ Entry(e).intree /\ ~Entry(e).inmaster
                    /\ ~IsLinkOrDir(Entry(e))
                    /\ ~NoIndexCheck(noindex, Entry(e).path)

\* C13: after check_missing_files, "Index entry without file" is reported
\* (once) for an Entry exactly when it is in the description, was not found on
\* disk and is neither a link nor a directory or deep reference, every such
\* line of stderr is about an Entry like that, and an Entry with both flags
\* true is in neither report.
C13_MissingExactly ==
    Checked =>
        /\ \A e \in Entries :
            /\ (LinesOf(MissingLine(dirmap[e[1]], Entry(e))) # {})
                <=> /\ Entry(e).inmaster /\ ~Entry(e).intree
                    /\ ~IsLinkOrDir(Entry(e)) /\ ~Entry(e).isdeep
            /\ Cardinality(LinesOf(MissingLine(dirmap[e[1]], Entry(e)))) <= 1
            /\ (Entry(e).inmaster /\ Entry(e).intree) =>
                /\ LinesOf(MissingLine(dirmap[e[1]], Entry(e))) = {}
                /\ LinesOf(OrphanLine(Entry(e))) = {}
        /\ \A k \in 1..Len(stderr) :
            stderr[k].msg = "Index entry without file" =>
                \E e \in Entries : stderr[k] = MissingLine(dirmap[e[1]], Entry(e))

\* an Entry of the index that is not on disk is reported, next to an Entry
\* with both flags that is not
C13_Witness ==
    /\ apc = "checked"
    /\ \E e \in Entries :
        /\ Entry(e).inmaster /\ ~Entry(e).intree
        /\ LinesOf(MissingLine(dirmap[e[1]], Entry(e))) # {}
    /\ \E e \in Entries :
        /\ Entry(e).inmaster /\ Entry(e).intree
        /\ LinesOf(MissingLine(dirmap[e[1]], Entry(e))) = {}

\* the names in a sequence of names
NameSet(ls) == {ls[k] : k \in 1..Len(ls)}

\* the Entries of the Directory at position i of dirmap
FilesAt(i) == {dirmap[i].files[j] : j \in 1..Len(dirmap[i].files)}

\* the positions in the catalog of the records for the Directory at
\* position i of dirmap
CatalogPos(i) == {k \in 1..Len(xml) : xml[k].dir = dirmap[i].dir}

\* C18: in the XML catalog every Directory has one record; no deep reference
\* is in its file list or its subdirectory list, every symlink that is not a
\* deep reference is in the file list, the subdirectory list holds the real
\* directories that are not deep references and nothing else, and the two
\* lists are disjoint and together hold each Entry that is not a deep
\* reference once.
C18_CatalogMembership ==
    apc = "catalogued" =>
        \A i \in 1..Len(dirmap) :
            /\ Cardinality(CatalogPos(i)) = 1
            /\ \A k \in CatalogPos(i) :
                /\ \A f \in FilesAt(i) :
                    /\ f.isdeep => f.name \notin NameSet(xml[k].files) \cup
                                                 NameSet(xml[k].subdirs)
                    /\ (~f.isdeep /\ f.islink) => f.name \in NameSet(xml[k].files)
                    /\ (f.name \in NameSet(xml[k].subdirs))
                        <=> (~f.isdeep /\ f.isdir /\ ~f.islink)
                /\ NameSet(xml[k].files) \cap NameSet(xml[k].subdirs) = {}
                /\ NameSet(xml[k].files) \cup NameSet(xml[k].subdirs)
                    = {f.name : f \in {g \in FilesAt(i) : ~g.isdeep}}
                /\ Len(xml[k].files) + Len(xml[k].subdirs)
                    = Cardinality({g \in FilesAt(i) : ~g.isdeep})
                /\ xml[k].count = Len(xml[k].files)
                /\ xml[k].subdircount = Len(xml[k].subdirs)

\* the catalog of a tree whose root has a real subdirectory and a deep
\* reference into it
C18_Witness ==
    /\ apc = "catalogued"
    /\ \E i \in 1..Len(dirmap) :
        /\ \E f \in FilesAt(i) : f.isdeep
        /\ \E f \in FilesAt(i) : ~f.isdeep /\ f.isdir /\ ~f.islink
        /\ \E k \in CatalogPos(i) : Len(xml[k].subdirs) = 1

-----------------------------------------------------------------------------
(* Properties of the generated pages *)

\* the orders in which os.scandir can give the entries of the disk
DiskOrders ==
    {[k \in 1..Len(disk) |-> disk[p[k]]] :
        p \in {q \in [1..Len(disk) -> 1..Len(disk)] :
                \A i, j \in 1..Len(disk) : q[i] = q[j] => i = j}}

\* the File of the tree with the given path
FileAt(path) == CHOOSE f \in {AllFiles(dirmap)[k] : k \in 1..Len(AllFiles(dirmap))} :
                    f.path = path

\* C14: the date listing does not depend on the order in which the entries
\* came into the tree: whatever order the scan of the same disk takes,
\* generate_output_datelist gives the same pages; and the list is ordered by
\* timestamp descending, then name, then path.
C14_DatelistOrderInvariant ==
    apc = "dated" =>
        /\ \A dk \in DiskOrders :
            generate_output_datelist(construct_archtree(index, treedir, dk).dm)
                = datelist
        /\ \A k \in 1..(Len(datelist[1].files) - 1) :
            ~KeyLess(DateKey(FileAt(datelist[1].files[k + 1])),
                     DateKey(FileAt(datelist[1].files[k])))

\* the page of the Directory at position i of dirmap, among the pages written
PagesOf(i) == {k \in 1..Len(pages) : pages[k].dir = dirmap[i].dir}

\* the bindings of the file in a page
BindingsOf(page, name) ==
    {page.files[k] : k \in {n \in 1..Len(page.files) : page.files[n].name = name}}
    \cup {page.alsofiles[k] :
            k \in {n \in 1..Len(page.alsofiles) : page.alsofiles[n].name = name}}

\* C15: once generate_output_indexes has run, every file whose unbox-block
\* metadata is "true" is on the index page of its Directory, which has been
\* generated, and its bindings there have no hasunboxlink, whatever its
\* unbox-link metadata, the no-unbox-link list and its suffix are.
C15_BlockedNeverLinked ==
    apc \in {"indexed", "raised"} =>
        \A i \in 1..Len(dirmap) : \A f \in FilesAt(i) :
            UnboxBlocked(f) =>
                /\ PagesOf(i) # {}
                /\ \A k \in PagesOf(i) :
                    /\ BindingsOf(pages[k], f.name) # {}
                    /\ \A b \in BindingsOf(pages[k], f.name) :
                        ~HasKey(b.itermap, "hasunboxlink")

-----------------------------------------------------------------------------
(* Properties of the checksum cache *)

\* the cache holds a record for the file of the call, with its size and mtime
CacheMatches(hc, call) ==
    /\ call.filename \in DOMAIN hc
    /\ hc[call.filename].size = call.size
    /\ hc[call.filename].timestamp = call.timestamp

SameArgs(c1, c2) ==
    /\ c1.filename = c2.filename
    /\ c1.size = c2.size
    /\ c1.timestamp = c2.timestamp

\* C16: a get_hashes call whose file has a cache record with the same size and
\* the same mtime returns the cached digests, reads no file and leaves the
\* cache and the cache file alone; any other call reads the file, returns its
\* digests, replaces the record of that file only and appends one line; a call
\* with the arguments of the call before it returns the same digests and
\* appends nothing
C16_CacheHitExactly ==
    [][hn' # hn =>
        LET call == hlast'
            fresh == calculate_hashes(hdisk[call.filename])
        IN  /\ CacheMatches(hcache, call) =>
                /\ call.md5 = hcache[call.filename].md5
                /\ call.sha512 = hcache[call.filename].sha512
                /\ hreads' = hreads
                /\ hcache' = hcache
                /\ hfile' = hfile
            /\ ~CacheMatches(hcache, call) =>
                /\ call.md5 = fresh.md5
                /\ call.sha512 = fresh.sha512
                /\ hreads' = hreads + 1
                /\ DOMAIN hcache' = (DOMAIN hcache) \cup {call.filename}
                /\ hcache'[call.filename] =
                        [size |-> call.size, timestamp |-> call.timestamp,
                         md5 |-> fresh.md5, sha512 |-> fresh.sha512]
                /\ \A k \in DOMAIN hcache :
                        k # call.filename => hcache'[k] = hcache[k]
                /\ hfile' = Append(hfile,
                        [size |-> call.size, timestamp |-> call.timestamp,
                         md5 |-> fresh.md5, sha512 |-> fresh.sha512,
                         filename |-> call.filename])
            /\ (hn >= 1 /\ SameArgs(call, hlast)) =>
                /\ call.md5 = hlast.md5
                /\ call.sha512 = hlast.sha512
                /\ hfile' = hfile
    ]_vars

\* three calls for one file, starting without cache: the first finds no
\* record, one changes the size or the mtime, one is a hit
C16_Witness ==
    /\ hn = 3
    /\ hreads = 2
    /\ Len(hfile) = 2
    /\ Cardinality(DOMAIN hcache) = 1
    /\ hfile[1].filename = hfile[2].filename

-----------------------------------------------------------------------------
(* Properties of the output files *)

\* C17: at every moment of a run, interrupted or not, every output path holds
\* the complete content of the writer that was resolved for it, and until
\* then exactly what it held (or did not hold) before the run
C17_AtomicOutput ==
    \A f \in FinalNames :
        wfs[f] = IF wres[f].exists THEN wres[f] ELSE wpre[f]

\* one output was replaced, and the run was interrupted in the middle of the
\* next one, whose file of an earlier run is still there
C17_Witness ==
    /\ wstate = "dead"
    /\ wjob.pos = 1
    /\ Len(wjob.data) = 2
    /\ wpre[wjob.finalname].exists
    /\ \E f \in FinalNames : wres[f].exists /\ wpre[f].exists /\ wres[f] # wpre[f]

-----------------------------------------------------------------------------
(* Properties of IndexMod *)

\* the directories IndexMod.rewrite would write
DirtyDirs == {mdirs[i].dirname : i \in {j \in DOMAIN mdirs : isdirty(mdirs[j])}}

LoadedDir(d) == mdirs[LoadedPos(mdirs, d)]

\* a rewrite call wrote the directories of the set changed, and no other:
\* Index-new when dryrun, else the Index file itself
WroteExactly(changed) ==
    /\ mret'.written = changed
    /\ \A d \in IndexDirs :
        IF d \in changed
        THEN IF mret'.dryrun
             THEN /\ mfs'.new[d] = NewText(LoadedDir(d))
                  /\ mfs'.index[d] = mfs.index[d]
             ELSE /\ mfs'.index[d] = NewText(LoadedDir(d))
                  /\ mfs'.new[d] = NoFile
        ELSE /\ mfs'.index[d] = mfs.index[d]
             /\ mfs'.new[d] = mfs.new[d]

\* C19 (for add_metadata calls that leave dirty true): after every call a
\* directory is dirty exactly when, since it was loaded or last rewritten
\* without dryrun, getfile created an entry in it or add_metadata marked one
\* of its entries; rewrite writes exactly those directories; hasfile leaves
\* every directory as it is, a getfile that finds its entry makes no directory
\* dirty, and after a rewrite without dryrun no directory is dirty
C19_DirtyTracking ==
    [][mn' # mn =>
        /\ DirtyDirs' = mhist'.changed
        /\ mret'.op = "rewrite" =>
            /\ WroteExactly(mhist.changed)
            /\ ~mret'.dryrun => DirtyDirs' = {}
        /\ mret'.op = "hasfile" => mdirs' = mdirs
        /\ (mret'.op = "getfile" /\ (mret'.found \/ mret'.exc # "")) =>
            DirtyDirs' = DirtyDirs
    ]_vars

\* C19 as stated, for every add_metadata call: rewrite writes exactly the
\* directories in which getfile created an entry or add_metadata was called
C19_EveryCallWritten ==
    [][(mn' # mn /\ mret'.op = "rewrite") => mret'.written = mhist.called]_vars

\* two directories are loaded, an entry that was present in one of them got
\* metadata, and a rewrite without dryrun wrote that directory only
C19_Witness ==
    /\ mret.op = "rewrite"
    /\ ~mret.dryrun
    /\ Len(mdirs) = 2
    /\ mret.written = {D_ab}
    /\ Len(mfs.index[D_ab].files) = 1
    /\ mfs.index[D_ab].files[1].metadata # <<>>
    /\ mfs.index[D_aXb] = mret.before[D_aXb]

\* C20: after rewrite(olddir) every directory it wrote has the Index file it
\* had before the call in olddir, under its backup name
C20_BackupsKept ==
    (mret.op = "rewrite" /\ mret.olddir /\ ~mret.dryrun) =>
        \A d \in mret.written : mfs.old[BackupName(d)] = mret.before[d]

-----------------------------------------------------------------------------
(* Properties of the binding map *)

\* C21: no step of Template.substitute changes the caller's map: whatever the
\* template, after the call the map has the keys and the values it had, and
\* none of the bindings name:value, name:key and name:first of a repetition
C21_MapNotMutated == [][tmap' = tmap]_vars

\* a repetition over a mapping was rendered: its one item wrote its value and
\* took the r:first branch
C21_Witness ==
    /\ tpc = "done"
    /\ pieces = FirstTemplate
    /\ Bound("r").t = "dict"
    /\ out = "<7FT"
    /\ DOMAIN tmap = {"r", "s"}

-----------------------------------------------------------------------------
(* Properties of the separator lines.  They read the lines of the          *)
(* Master-Index file by their characters, not with the parser's pattern.   *)

SepPunct == {"-", "+", "=", "#", "*"}

\* a line made of - + = # * and spaces only, with one of the five at least
IsSeparator(ln) ==
    /\ \A i \in 1..Len(ln) : ln[i] \in SepPunct \cup {" "}
    /\ \E i \in 1..Len(ln) : ln[i] \in SepPunct

InSeq(x, s) == \E i \in 1..Len(s) : s[i] = x

RootDir == dirmap[DirPos(dirmap, ROOTNAME)]

\* the lines of the root directory's header, as kept for the XML catalogue
HeaderLines ==
    IF HasKey(RootDir.submap, "xmlheader")
    THEN Split(RootDir.submap["xmlheader"], "\n") ELSE <<>>

\* the lines of an entry's description, as kept for the XML catalogue
DescLines(f) ==
    IF HasKey(f.submap, "xmldesc") THEN Split(f.submap["xmldesc"], "\n") ELSE <<>>

InHeader(ln) == InSeq(ln, HeaderLines)

InSomeDesc(ln) ==
    \E j \in 1..Len(RootDir.files) : InSeq(ln, DescLines(RootDir.files[j]))

\* the line is "##" and a name, and the root directory has an entry of that
\* name
StartedEntry(ln) ==
    /\ Len(ln) >= 3 /\ ln[1] = "#" /\ ln[2] = "#" /\ ln[3] # "#"
    /\ FilePos(RootDir, Strip(Drop(ln, 2))) # 0

\* C22: once the file is read, no line of the root block made of - + = # *
\* and spaces (one of the five at least) is in the header, in the description
\* of an entry, or has started an entry
C22_SeparatorsSkipped ==
    apc = "parsed" =>
        \A i \in 2..Len(index.lines) :
            IsSeparator(index.lines[i]) =>
                /\ ~InHeader(index.lines[i])
                /\ ~InSomeDesc(index.lines[i])
                /\ ~StartedEntry(index.lines[i])

\* C30: once the file is read, every non-blank line of the root block with a
\* character other than - + = # * and space is in the header, in the
\* description of an entry, or has started the entry of its name
C30_OnlySeparatorsDropped ==
    apc = "parsed" =>
        \A i \in 2..Len(index.lines) :
            (index.lines[i] # <<>> /\ ~IsSeparator(index.lines[i])) =>
                \/ InHeader(index.lines[i])
                \/ InSomeDesc(index.lines[i])
                \/ StartedEntry(index.lines[i])

-----------------------------------------------------------------------------
(* Properties of the date listings *)

\* the elements of a sequence
ElemsOf(s) == {s[i] : i \in 1..Len(s)}

\* st_mtime of the scanned file with this path
MtimeOf(path) ==
    (CHOOSE e \in ElemsOf(disk) :
        e.kind = "file" /\ PathJoin(e.dir, e.name) = path).mtime

\* the paths of ls whose files are not older than intlen, in the order of ls
WithinWindow(ls, intlen) ==
    SelectSeq(ls, LAMBDA path : MtimeOf(path) + intlen >= curdate)

\* s is the beginning of t
IsPrefixOf(s, t) == Len(s) <= Len(t) /\ SubSeq(t, 1, Len(s)) = s

\* C23: once the date pages are made, the page of each interval (week,
\* month, three months, year) lists exactly the files of the full page whose
\* date + interval >= curdate, in the full page's order; it is a prefix of
\* the full page and of the page of every longer interval; and the full page
\* lists every file that the scan gave a modification time
C23_WindowsAreFilters ==
    apc = "dated" =>
        LET full == datelist[1].files
        IN  /\ \A k \in 2..Len(intervals) :
                /\ datelist[k].files = WithinWindow(full, intervals[k].len)
                /\ IsPrefixOf(datelist[k].files, full)
                /\ \A j \in 2..Len(intervals) :
                        intervals[k].len <= intervals[j].len
                            => IsPrefixOf(datelist[k].files, datelist[j].files)
            /\ ElemsOf(full) = {PathJoin(e.dir, e.name) :
                                e \in {x \in ElemsOf(disk) : x.kind = "file"}}
            /\ Len(full) = Cardinality(ElemsOf(full))

\* four files, of which one is exactly a week old, one a second older, one
\* within the year and one older than a year
C23_Witness ==
    /\ apc = "dated"
    /\ Len(datelist[1].files) = 4
    /\ Len(datelist[5].files) = 3
    /\ Len(datelist[4].files) = 2
    /\ Len(datelist[3].files) = 2
    /\ Len(datelist[2].files) = 1
    /\ MtimeOf(datelist[2].files[1]) + intervals[2].len = curdate
    /\ MtimeOf(datelist[3].files[2]) + intervals[2].len = curdate - 1

-----------------------------------------------------------------------------
(* Properties of the lists of an index page *)

\* the names of the entries that prepare_filelist gave bindings to
ResNames(res) == {res[k].name : k \in 1..Len(res)}

\* the four lists of the page made for the i-th Directory, as sets of names
ListsOf(i) ==
    <<ResNames(pages[i].files), ResNames(pages[i].alsofiles),
      ElemsOf(pages[i].subdirs), ElemsOf(pages[i].alsosubdirs)>>

\* C24: once the index pages are made there is one for every Directory; its
\* four lists _files, _alsofiles, _subdirs and _alsosubdirs are pairwise
\* disjoint and hold exactly the directory's entries, each once; entries
\* whose name is a deep reference are in the two also-lists only and are not
\* counted by count and subdircount; and an entry is in one of the two
\* subdirectory lists exactly when its isdir flag is set
C24_FourLists ==
    apc = "indexed" =>
        /\ Len(pages) = Len(dirmap)
        /\ \A i \in 1..Len(dirmap) :
            LET l == ListsOf(i)
            IN  /\ pages[i].dir = dirmap[i].dir
                /\ \A a, b \in 1..4 : a # b => l[a] \cap l[b] = {}
                /\ l[1] \cup l[2] \cup l[3] \cup l[4]
                    = {f.name : f \in FilesAt(i)}
                /\ Len(pages[i].files) + Len(pages[i].alsofiles)
                    + Len(pages[i].subdirs) + Len(pages[i].alsosubdirs)
                    = Len(dirmap[i].files)
                /\ \A f \in FilesAt(i) :
                    /\ f.isdeep <=> f.name \in l[2] \cup l[4]
                    /\ f.isdir <=> f.name \in l[3] \cup l[4]
                /\ pages[i].count = Cardinality(l[1])
                /\ pages[i].subdircount = Cardinality(l[3])

\* the page of if-archive lists foo.zip and the symlink ln as files,
\* games/foo.zip as also-file, games and the symlink lnk as subdirectories,
\* games/data and the symlink games/lnk as also-subdirectories
C24_Witness ==
    /\ apc = "indexed"
    /\ pages[1].dir = ROOTNAME
    /\ ListsOf(1) = << {N_foo, N_ln}, {PathJoin(N_games, N_foo)},
                       {N_games, N_lnk},
                       {PathJoin(N_games, N_data), PathJoin(N_games, N_lnk)} >>

-----------------------------------------------------------------------------
(* Properties of the unbox link *)

\* the name in the "## name" line of the Master-Index
IndexedName == SubSeq(index.lines[2], 4, Len(index.lines[2]))

\* the value of the "unbox-link: value" line of the Master-Index, <<>> if
\* there is no such line
IndexedLink ==
    IF Len(index.lines) >= 3
        /\ StartsWith(index.lines[3], K_unbox_link \o <<":", " ">>)
    THEN SubSeq(index.lines[3], Len(K_unbox_link) + 3, Len(index.lines[3]))
    ELSE <<>>

\* the name ends in .zip, .tgz, .tar.gz or .tar.z, in any case of letters
HasArchiveSuffix(name) ==
    \E suffix \in { <<".", "z", "i", "p">>, <<".", "t", "g", "z">>,
                    <<".", "t", "a", "r", ".", "g", "z">>,
                    <<".", "t", "a", "r", ".", "z">> } :
        EndsWith(lower(name), suffix)

\* the page of if-archive binds hasunboxlink for its one file
LinkShown ==
    /\ Len(pages) >= 1
    /\ Len(pages[1].files) = 1
    /\ pages[1].files[1].name = IndexedName
    /\ HasKey(pages[1].files[1].itermap, "hasunboxlink")

\* C25: for a file without unbox-block "true", the page shows the unbox link
\* exactly when: the file has an unbox-link value and that value is "true"
\* in any case of letters; or it has none, its directory is not in the
\* no-unbox-link list and its name ends in .zip, .tgz, .tar.gz or .tar.z in
\* any case of letters
C25_UnboxLinkTiers ==
    apc = "indexed" =>
        /\ Len(pages) = 1
        /\ Len(pages[1].files) = 1
        /\ pages[1].files[1].name = IndexedName
        /\ LinkShown <=>
            IF IndexedLink # <<>> THEN lower(IndexedLink) = C_true
            ELSE IF ROOTNAME \in nounbox THEN FALSE
            ELSE HasArchiveSuffix(IndexedName)

\* unbox-link "True" shows the link of a file named data in a directory of
\* the no-unbox-link list
C25_Witness ==
    /\ apc = "indexed"
    /\ IndexedName = N_data
    /\ IndexedLink = <<"T", "r", "u", "e">>
    /\ ROOTNAME \in nounbox
    /\ LinkShown

-----------------------------------------------------------------------------
(* Properties of the cache file *)

\* self.cache with its checksums as the digits the file holds
MemoryMap ==
    [k \in DOMAIN hcache |->
        [size |-> hcache[k].size, timestamp |-> hcache[k].timestamp,
         md5 |-> hexdigest(hcache[k].md5),
         sha512 |-> hexdigest(hcache[k].sha512)]]

\* C26: after any sequence of get_hashes calls, a FileHasher that reads the
\* cache file afresh holds the same map path -> (size, timestamp, md5,
\* sha512) as the running one
C26_ReloadEqualsMemory == LoadText(CacheText(hfile)) = MemoryMap

-----------------------------------------------------------------------------
(* Properties of the scan *)

\* the directories of the tree that are not symlinks, the root included
RealDirs ==
    {ROOTNAME} \cup {PathJoin(e.dir, e.name) :
                        e \in {x \in ElemsOf(disk) : x.kind = "dir"}}

\* the symlinks of the tree
LinksOnDisk == {e \in ElemsOf(disk) : e.kind \in {"symdir", "symloop"}}

\* the File that the dirmap holds for an entry of the tree
ScannedFile(e) ==
    LET d == dirmap[DirPos(dirmap, e.dir)]
    IN  d.files[FilePos(d, e.name)]

\* C27: the scan of a tree with symlinks to a parent directory, to their own
\* directory or to themselves ends without an exception; os.scandir is
\* called once on every real directory and on nothing else; and every
\* symlink to a directory is one File with islink and isdir set and linkdir
\* the normalised path of its destination
C27_ScanOnlyRealDirs ==
    apc \in {"scanned", "raised"} =>
        LET r == ScanStep(treedir, disk)
        IN  /\ aexc = ""
            /\ dirmap = r.dm
            /\ ElemsOf(r.scans) = RealDirs
            /\ Len(r.scans) = Cardinality(RealDirs)
            /\ \A e \in LinksOnDisk :
                /\ DirPos(dirmap, e.dir) # 0
                /\ FilePos(dirmap[DirPos(dirmap, e.dir)], e.name) # 0
                /\ ScannedFile(e).islink
                /\ ScannedFile(e).isdir
                /\ ScannedFile(e).submap["linkdir"]
                    = normpath(OsPathJoin(e.dir, e.link))

-----------------------------------------------------------------------------
(* Properties of the records of the ArchiveTree *)

\* one Directory per path, one File per name in a Directory, and every File
\* is under its name in the Directory it belongs to
UniqueRecords ==
    /\ \A i, j \in 1..Len(dirmap) : dirmap[i].dir = dirmap[j].dir => i = j
    /\ \A i \in 1..Len(dirmap) :
        /\ DirPos(dirmap, dirmap[i].dir) = i
        /\ \A j, k \in 1..Len(dirmap[i].files) :
                dirmap[i].files[j].name = dirmap[i].files[k].name => j = k
        /\ \A j \in 1..Len(dirmap[i].files) :
            LET e == dirmap[i].files[j]
            IN  /\ FilePos(dirmap[i], e.name) = j
                /\ e.path = dirmap[i].dir \o <<"/">> \o e.name
                /\ e.submap["dir"] = dirmap[i].dir
                /\ e.submap["name"] = e.name

\* what the scanner recorded about a file
ScanKeys == {"filesize", "date", "datestr", "md5", "sha512"}

-----------------------------------------------------------------------------
(* Properties of the Index file round trip *)

\* the names of the entries in order, each with its metadata: the keys in
\* order, each with its values in order
EntriesOf(d) ==
    [i \in 1..Len(d.files) |->
        [filename |-> d.files[i].filename, metadata |-> d.files[i].metadata]]

\* C29: an Index file is loaded, rewritten, loaded again and rewritten again:
\* the second load has the entry names and the metadata of the first, and
\* the second rewrite writes the text the first one wrote
C29_RoundTrip ==
    mn = 4 =>
        /\ EntriesOf(mhist.loads[2]) = EntriesOf(mhist.loads[1])
        /\ mhist.texts[2] = mhist.texts[1]

=============================================================================
